---- MODULE Spec2Model ----
(***************************************************************************)
(* A model of package mmapfile: one MmapFile handle (the struct of         *)
(* mmapfile.go), the file it maps, and the calls made on it.  Every method *)
(* holds f.mu for its whole body, so for a single caller one call is one   *)
(* step (Spec, SpecOpen); for two goroutines a call is split into taking   *)
(* the lock, the checks, the copy byte by byte and the release (SpecPos,   *)
(* SpecCur, SpecClose).  Two builds are modelled: the POSIX build          *)
(* (syscall.Mmap) and the fallback build (an owned buffer and a retained   *)
(* *os.File).                                                              *)
(***************************************************************************)
EXTENDS Integers, Sequences, FiniteSets, TLC

VARIABLES
    f,      \* the MmapFile struct: data, offset, writable, closed, platform
    sys,    \* what the handle owns outside the struct: file bytes, mapping, fd
    goos,   \* the build: "unix" (mmapfile_unix.go) or "other" (mmapfile_other.go)
    last,   \* the most recent call: its arguments, the state it found, its results
    mu,     \* f.mu, the sync.RWMutex: the goroutines holding it
    procs   \* the goroutines calling concurrently: call, position, locals

vars == <<f, sys, goos, last, mu, procs>>

-----------------------------------------------------------------------------
(* Bounds of the model. *)

\* the longest region
MaxLen == 2
\* the longest caller buffer
MaxBuf == 2
\* int64 is modelled as a two's-complement integer of IntBits bits
IntBits == 4

MaxInt == 2 ^ (IntBits - 1) - 1
MinInt == -(2 ^ (IntBits - 1))
Int64 == MinInt..MaxInt
\* signed wrap-around of Go's int64 arithmetic
Wrap(x) == ((x - MinInt) % (2 ^ IntBits)) + MinInt

Byte == {0, 1}
Min(a, b) == IF a < b THEN a ELSE b
Max(a, b) == IF a > b THEN a ELSE b
SeqsUpTo(n) == UNION {[1..k -> Byte] : k \in 0..n}
Regions == SeqsUpTo(MaxLen)
\* the buffers a caller writes from
Bufs == SeqsUpTo(MaxBuf)
\* the buffers a caller reads into: filled with a value no region holds, so that
\* a byte the call stored is told from one it left alone
Fill == 2
RBufs == {[i \in 1..k |-> Fill] : k \in 0..MaxBuf}
\* offsets handed to ReadAt / WriteAt: negative, inside, at the end, beyond it
OffArgs == {MinInt} \cup (-1)..(MaxLen + 1)
\* the model follows the cursor up to MaxOff
MaxOff == MaxLen + 1
\* offsets handed to Seek: the extremes of int64 and everything near the region
SeekArgs == {MinInt, MaxInt} \cup (-MaxOff)..MaxOff

-----------------------------------------------------------------------------
(* Go's slices and the copy builtin. *)

\* s[lo:] is in range iff 0 <= lo <= len(s); otherwise the runtime panics
SliceFromOk(s, lo) == 0 <= lo /\ lo <= Len(s)
SliceFrom(s, lo) == SubSeq(s, lo + 1, Len(s))
\* s[:hi] is in range iff 0 <= hi <= len(s) (every modelled buffer has cap = len)
SliceToOk(s, hi) == 0 <= hi /\ hi <= Len(s)
SliceTo(s, hi) == SubSeq(s, 1, hi)
\* copy(dst, src): moves min(len(dst), len(src)) bytes to the front of dst
CopyN(dst, src) == Min(Len(dst), Len(src))
CopyInto(dst, src) ==
    [i \in 1..Len(dst) |-> IF i <= CopyN(dst, src) THEN src[i] ELSE dst[i]]
\* copy(s[lo:], src) as seen in s (lo in range)
CopyAt(s, lo, src) ==
    [i \in 1..Len(s) |->
        IF i > lo /\ i <= lo + CopyN(SliceFrom(s, lo), src) THEN src[i - lo] ELSE s[i]]
\* the 0-based indices of s that a copy of n bytes at lo touches
Touched(lo, n) == lo..(lo + n - 1)

-----------------------------------------------------------------------------
(* What a method returns: the handle afterwards, the count, the error, the *)
(* caller's buffer afterwards, whether a slice expression went out of      *)
(* range (a runtime panic), and the region indices the call touched.       *)

Ret(h, n, err, buf) ==
    [f |-> h, n |-> n, err |-> err, buf |-> buf, fault |-> FALSE, idx |-> {}]
RetIdx(h, n, err, buf, idx) ==
    [f |-> h, n |-> n, err |-> err, buf |-> buf, fault |-> FALSE, idx |-> idx]
Panic(h, buf) ==
    [f |-> h, n |-> 0, err |-> "panic", buf |-> buf, fault |-> TRUE, idx |-> {}]

\* func (f *MmapFile) Len() int
LenOf(h) == Len(h.data)

\* func (f *MmapFile) Bytes() []byte
BytesOf(h) == h.data

\* Read leaving the cursor where it was
Read_NoAdvance(h, b) ==
    IF h.closed THEN Ret(h, 0, "Closed", b)
    ELSE IF h.offset >= Len(h.data) THEN Ret(h, 0, "EOF", b)
    ELSE LET src == SliceFrom(h.data, h.offset)
             n == CopyN(b, src)
         IN  RetIdx(h, n, IF n < Len(b) THEN "EOF" ELSE "nil",
                    CopyInto(b, src), Touched(h.offset, n))

\* func (f *MmapFile) Read(b []byte) (n int, err error)
Read(h, b) ==
    IF h.closed THEN Ret(h, 0, "Closed", b)
    ELSE IF h.offset >= Len(h.data) THEN Ret(h, 0, "EOF", b)
    ELSE IF ~SliceFromOk(h.data, h.offset) THEN Panic(h, b)
    ELSE LET src == SliceFrom(h.data, h.offset)
             n == CopyN(b, src)
         IN  RetIdx([h EXCEPT !.offset = Wrap(h.offset + n)], n,
                    IF n < Len(b) THEN "EOF" ELSE "nil",
                    CopyInto(b, src), Touched(h.offset, n))

\* ReadAt without its end-of-region check
ReadAt_NoEndCheck(h, b, off) ==
    IF h.closed THEN Ret(h, 0, "Closed", b)
    ELSE IF off < 0 THEN Ret(h, 0, "NegativeOffset", b)
    ELSE IF ~SliceFromOk(h.data, off) THEN Panic(h, b)
    ELSE LET src == SliceFrom(h.data, off)
             n == CopyN(b, src)
         IN  RetIdx(h, n, IF n < Len(b) THEN "EOF" ELSE "nil",
                    CopyInto(b, src), Touched(off, n))

\* ReadAt reporting io.EOF whenever the read reaches the end of the region
ReadAt_EOFAtEnd(h, b, off) ==
    IF h.closed THEN Ret(h, 0, "Closed", b)
    ELSE IF off < 0 THEN Ret(h, 0, "NegativeOffset", b)
    ELSE IF off >= Len(h.data) THEN Ret(h, 0, "EOF", b)
    ELSE LET src == SliceFrom(h.data, off)
             n == CopyN(b, src)
         IN  RetIdx(h, n, IF n <= Len(b) /\ off + n = Len(h.data) THEN "EOF" ELSE "nil",
                    CopyInto(b, src), Touched(off, n))

\* func (f *MmapFile) ReadAt(b []byte, off int64) (n int, err error)
ReadAt(h, b, off) ==
    IF h.closed THEN Ret(h, 0, "Closed", b)
    ELSE IF off < 0 THEN Ret(h, 0, "NegativeOffset", b)
    ELSE IF off >= Len(h.data) THEN Ret(h, 0, "EOF", b)
    ELSE IF ~SliceFromOk(h.data, off) THEN Panic(h, b)
    ELSE LET src == SliceFrom(h.data, off)
             n == CopyN(b, src)
         IN  RetIdx(h, n, IF n < Len(b) THEN "EOF" ELSE "nil",
                    CopyInto(b, src), Touched(off, n))

\* Write leaving the cursor where it was after a partial fit
Write_NoAdvanceOnPartial(h, b) ==
    IF h.closed THEN Ret(h, 0, "Closed", b)
    ELSE IF ~h.writable THEN Ret(h, 0, "ReadOnly", b)
    ELSE LET available == Len(h.data) - h.offset IN
         IF available <= 0 THEN Ret(h, 0, "WriteOutOfBounds", b)
         ELSE IF Len(b) > available
         THEN LET n == CopyN(SliceFrom(h.data, h.offset), SliceTo(b, available))
              IN  RetIdx([h EXCEPT !.data = CopyAt(h.data, h.offset, SliceTo(b, available))],
                         n, "WriteOutOfBounds", b, Touched(h.offset, n))
         ELSE LET n == CopyN(SliceFrom(h.data, h.offset), b)
              IN  RetIdx([h EXCEPT !.data = CopyAt(h.data, h.offset, b),
                                   !.offset = Wrap(h.offset + n)],
                         n, "nil", b, Touched(h.offset, n))

\* Write storing all of b when it does not fit, the region growing to hold it
Write_Grow(h, b) ==
    IF h.closed THEN Ret(h, 0, "Closed", b)
    ELSE IF ~h.writable THEN Ret(h, 0, "ReadOnly", b)
    ELSE LET available == Len(h.data) - h.offset IN
         IF available <= 0 THEN Ret(h, 0, "WriteOutOfBounds", b)
         ELSE IF Len(b) > available
         THEN RetIdx([h EXCEPT !.data = SliceTo(h.data, h.offset) \o b,
                               !.offset = Wrap(h.offset + Len(b))],
                     Len(b), "nil", b, Touched(h.offset, available))
         ELSE LET n == CopyN(SliceFrom(h.data, h.offset), b)
              IN  RetIdx([h EXCEPT !.data = CopyAt(h.data, h.offset, b),
                                   !.offset = Wrap(h.offset + n)],
                         n, "nil", b, Touched(h.offset, n))

\* func (f *MmapFile) Write(b []byte) (n int, err error)
Write(h, b) ==
    IF h.closed THEN Ret(h, 0, "Closed", b)
    ELSE IF ~h.writable THEN Ret(h, 0, "ReadOnly", b)
    ELSE LET available == Len(h.data) - h.offset IN
         IF available <= 0 THEN Ret(h, 0, "WriteOutOfBounds", b)
         ELSE IF ~SliceFromOk(h.data, h.offset) THEN Panic(h, b)
         ELSE IF Len(b) > available
         THEN IF ~SliceToOk(b, available) THEN Panic(h, b)
              ELSE LET n == CopyN(SliceFrom(h.data, h.offset), SliceTo(b, available))
                   IN  RetIdx([h EXCEPT !.data = CopyAt(h.data, h.offset, SliceTo(b, available)),
                                        !.offset = Wrap(h.offset + n)],
                              n, "WriteOutOfBounds", b, Touched(h.offset, n))
         ELSE LET n == CopyN(SliceFrom(h.data, h.offset), b)
              IN  RetIdx([h EXCEPT !.data = CopyAt(h.data, h.offset, b),
                                   !.offset = Wrap(h.offset + n)],
                         n, "nil", b, Touched(h.offset, n))

\* WriteAt refusing a write that does not fit instead of storing its prefix
WriteAt_AllOrNothing(h, b, off) ==
    IF h.closed THEN Ret(h, 0, "Closed", b)
    ELSE IF ~h.writable THEN Ret(h, 0, "ReadOnly", b)
    ELSE IF off < 0 THEN Ret(h, 0, "NegativeOffset", b)
    ELSE IF off >= Len(h.data) THEN Ret(h, 0, "WriteOutOfBounds", b)
    ELSE LET available == Len(h.data) - off IN
         IF Len(b) > available THEN Ret(h, 0, "WriteOutOfBounds", b)
         ELSE LET n == CopyN(SliceFrom(h.data, off), b)
              IN  RetIdx([h EXCEPT !.data = CopyAt(h.data, off, b)],
                         n, "nil", b, Touched(off, n))

\* WriteAt without its negative-offset check
WriteAt_NoNegCheck(h, b, off) ==
    IF h.closed THEN Ret(h, 0, "Closed", b)
    ELSE IF ~h.writable THEN Ret(h, 0, "ReadOnly", b)
    ELSE IF off >= Len(h.data) THEN Ret(h, 0, "WriteOutOfBounds", b)
    ELSE IF ~SliceFromOk(h.data, off) THEN Panic(h, b)
    ELSE LET available == Len(h.data) - off IN
         IF Len(b) > available
         THEN LET n == CopyN(SliceFrom(h.data, off), SliceTo(b, available))
              IN  RetIdx([h EXCEPT !.data = CopyAt(h.data, off, SliceTo(b, available))],
                         n, "WriteOutOfBounds", b, Touched(off, n))
         ELSE LET n == CopyN(SliceFrom(h.data, off), b)
              IN  RetIdx([h EXCEPT !.data = CopyAt(h.data, off, b)],
                         n, "nil", b, Touched(off, n))

\* WriteAt storing at the cursor instead of at off
WriteAt_UsesCursor(h, b, off) ==
    IF h.closed THEN Ret(h, 0, "Closed", b)
    ELSE IF ~h.writable THEN Ret(h, 0, "ReadOnly", b)
    ELSE IF off < 0 THEN Ret(h, 0, "NegativeOffset", b)
    ELSE IF off >= Len(h.data) THEN Ret(h, 0, "WriteOutOfBounds", b)
    ELSE IF ~SliceFromOk(h.data, h.offset) THEN Panic(h, b)
    ELSE LET available == Len(h.data) - off
             fit == IF Len(b) > available THEN SliceTo(b, available) ELSE b
             n == CopyN(SliceFrom(h.data, h.offset), fit)
         IN  RetIdx([h EXCEPT !.data = CopyAt(h.data, h.offset, fit)], n,
                    IF Len(b) > available THEN "WriteOutOfBounds" ELSE "nil",
                    b, Touched(h.offset, n))

\* WriteAt leaving the cursor after the bytes it stored
WriteAt_AdvancesCursor(h, b, off) ==
    IF h.closed THEN Ret(h, 0, "Closed", b)
    ELSE IF ~h.writable THEN Ret(h, 0, "ReadOnly", b)
    ELSE IF off < 0 THEN Ret(h, 0, "NegativeOffset", b)
    ELSE IF off >= Len(h.data) THEN Ret(h, 0, "WriteOutOfBounds", b)
    ELSE IF ~SliceFromOk(h.data, off) THEN Panic(h, b)
    ELSE LET available == Len(h.data) - off IN
         IF Len(b) > available
         THEN IF ~SliceToOk(b, available) THEN Panic(h, b)
              ELSE LET n == CopyN(SliceFrom(h.data, off), SliceTo(b, available))
                   IN  RetIdx([h EXCEPT !.data = CopyAt(h.data, off, SliceTo(b, available)),
                                        !.offset = off + n],
                              n, "WriteOutOfBounds", b, Touched(off, n))
         ELSE LET n == CopyN(SliceFrom(h.data, off), b)
              IN  RetIdx([h EXCEPT !.data = CopyAt(h.data, off, b), !.offset = off + n],
                         n, "nil", b, Touched(off, n))

\* WriteAt testing the offset before the writable flag
WriteAt_NegBeforeReadOnly(h, b, off) ==
    IF h.closed THEN Ret(h, 0, "Closed", b)
    ELSE IF off < 0 THEN Ret(h, 0, "NegativeOffset", b)
    ELSE IF ~h.writable THEN Ret(h, 0, "ReadOnly", b)
    ELSE IF off >= Len(h.data) THEN Ret(h, 0, "WriteOutOfBounds", b)
    ELSE IF ~SliceFromOk(h.data, off) THEN Panic(h, b)
    ELSE LET available == Len(h.data) - off IN
         IF Len(b) > available
         THEN IF ~SliceToOk(b, available) THEN Panic(h, b)
              ELSE LET n == CopyN(SliceFrom(h.data, off), SliceTo(b, available))
                   IN  RetIdx([h EXCEPT !.data = CopyAt(h.data, off, SliceTo(b, available))],
                              n, "WriteOutOfBounds", b, Touched(off, n))
         ELSE LET n == CopyN(SliceFrom(h.data, off), b)
              IN  RetIdx([h EXCEPT !.data = CopyAt(h.data, off, b)],
                         n, "nil", b, Touched(off, n))

\* func (f *MmapFile) WriteAt(b []byte, off int64) (n int, err error)
WriteAt(h, b, off) ==
    IF h.closed THEN Ret(h, 0, "Closed", b)
    ELSE IF ~h.writable THEN Ret(h, 0, "ReadOnly", b)
    ELSE IF off < 0 THEN Ret(h, 0, "NegativeOffset", b)
    ELSE IF off >= Len(h.data) THEN Ret(h, 0, "WriteOutOfBounds", b)
    ELSE IF ~SliceFromOk(h.data, off) THEN Panic(h, b)
    ELSE LET available == Len(h.data) - off IN
         IF Len(b) > available
         THEN IF ~SliceToOk(b, available) THEN Panic(h, b)
              ELSE LET n == CopyN(SliceFrom(h.data, off), SliceTo(b, available))
                   IN  RetIdx([h EXCEPT !.data = CopyAt(h.data, off, SliceTo(b, available))],
                              n, "WriteOutOfBounds", b, Touched(off, n))
         ELSE LET n == CopyN(SliceFrom(h.data, off), b)
              IN  RetIdx([h EXCEPT !.data = CopyAt(h.data, off, b)],
                         n, "nil", b, Touched(off, n))

\* func (f *MmapFile) WriteString(s string) (n int, err error)
\* a string is its bytes: []byte(s) is a fresh slice holding the same sequence
WriteString(h, s) == Write(h, s)

\* io.SeekStart, io.SeekCurrent, io.SeekEnd
SeekStart == 0
SeekCurrent == 1
SeekEnd == 2

\* Seek without its closed check
Seek_NoClosedCheck(h, offset, whence) ==
    IF whence \notin {SeekStart, SeekCurrent, SeekEnd}
    THEN Ret(h, 0, "InvalidWhence", <<>>)
    ELSE LET newOffset ==
                 IF whence = SeekStart THEN offset
                 ELSE IF whence = SeekCurrent THEN Wrap(h.offset + offset)
                 ELSE Wrap(Len(h.data) + offset)
         IN  IF newOffset < 0 THEN Ret(h, 0, "NegativeOffset", <<>>)
             ELSE Ret([h EXCEPT !.offset = newOffset], newOffset, "nil", <<>>)

\* Seek taking SeekCurrent from the start of the region
Seek_CurrentFromStart(h, offset, whence) ==
    IF h.closed THEN Ret(h, 0, "Closed", <<>>)
    ELSE IF whence \notin {SeekStart, SeekCurrent, SeekEnd}
    THEN Ret(h, 0, "InvalidWhence", <<>>)
    ELSE LET newOffset ==
                 IF whence = SeekStart THEN offset
                 ELSE IF whence = SeekCurrent THEN offset
                 ELSE Wrap(Len(h.data) + offset)
         IN  IF newOffset < 0 THEN Ret(h, 0, "NegativeOffset", <<>>)
             ELSE Ret([h EXCEPT !.offset = newOffset], newOffset, "nil", <<>>)

\* Seek without its check of a negative position
Seek_NoNegativeCheck(h, offset, whence) ==
    IF h.closed THEN Ret(h, 0, "Closed", <<>>)
    ELSE IF whence \notin {SeekStart, SeekCurrent, SeekEnd}
    THEN Ret(h, 0, "InvalidWhence", <<>>)
    ELSE LET newOffset ==
                 IF whence = SeekStart THEN offset
                 ELSE IF whence = SeekCurrent THEN Wrap(h.offset + offset)
                 ELSE Wrap(Len(h.data) + offset)
         IN  Ret([h EXCEPT !.offset = newOffset], newOffset, "nil", <<>>)

\* Seek taking SeekEnd from the last byte instead of the length
Seek_EndAtLastByte(h, offset, whence) ==
    IF h.closed THEN Ret(h, 0, "Closed", <<>>)
    ELSE IF whence \notin {SeekStart, SeekCurrent, SeekEnd}
    THEN Ret(h, 0, "InvalidWhence", <<>>)
    ELSE LET newOffset ==
                 IF whence = SeekStart THEN offset
                 ELSE IF whence = SeekCurrent THEN Wrap(h.offset + offset)
                 ELSE Wrap(Len(h.data) - 1 + offset)
         IN  IF newOffset < 0 THEN Ret(h, 0, "NegativeOffset", <<>>)
             ELSE Ret([h EXCEPT !.offset = newOffset], newOffset, "nil", <<>>)

\* Seek storing the new offset before it tests it
Seek_StoresBeforeCheck(h, offset, whence) ==
    IF h.closed THEN Ret(h, 0, "Closed", <<>>)
    ELSE IF whence \notin {SeekStart, SeekCurrent, SeekEnd}
    THEN Ret(h, 0, "InvalidWhence", <<>>)
    ELSE LET newOffset ==
                 IF whence = SeekStart THEN offset
                 ELSE IF whence = SeekCurrent THEN Wrap(h.offset + offset)
                 ELSE Wrap(Len(h.data) + offset)
         IN  IF newOffset < 0
             THEN Ret([h EXCEPT !.offset = newOffset], 0, "NegativeOffset", <<>>)
             ELSE Ret([h EXCEPT !.offset = newOffset], newOffset, "nil", <<>>)

\* func (f *MmapFile) Seek(offset int64, whence int) (int64, error)
\* n is the position returned
Seek(h, offset, whence) ==
    IF h.closed THEN Ret(h, 0, "Closed", <<>>)
    ELSE IF whence \notin {SeekStart, SeekCurrent, SeekEnd}
    THEN Ret(h, 0, "InvalidWhence", <<>>)
    ELSE LET newOffset ==
                 IF whence = SeekStart THEN offset
                 ELSE IF whence = SeekCurrent THEN Wrap(h.offset + offset)
                 ELSE Wrap(Len(h.data) + offset)
         IN  IF newOffset < 0 THEN Ret(h, 0, "NegativeOffset", <<>>)
             ELSE Ret([h EXCEPT !.offset = newOffset], newOffset, "nil", <<>>)

-----------------------------------------------------------------------------
(* The io.Reader handed to ReadFrom and the io.Writer handed to WriteTo.   *)
(* A reader holds src, of which pos bytes are consumed; one Read delivers  *)
(* at most chunk bytes; it reports io.EOF either together with its last    *)
(* bytes (eofWithData) or on the call after them; a reader that fails      *)
(* returns an error from the Read at position errAt.                       *)

\* a reader delivers a byte at a time or all it is asked for; a failing one
\* fails at once or after its first byte
Chunks == {1, MaxLen + 1}
ErrAts == {0, 1}
\* reader contents: 1, 0, 1, ... up to one byte more than any region holds
SrcSeqs == {[i \in 1..k |-> i % 2] : k \in 0..(MaxLen + 1)}
Readers ==
    [src : SrcSeqs, pos : {0}, chunk : Chunks, eofWithData : BOOLEAN,
     fails : {FALSE}, errAt : {0}]
    \cup
    [src : SrcSeqs, pos : {0}, chunk : Chunks, eofWithData : BOOLEAN,
     fails : {TRUE}, errAt : ErrAts]

\* r.Read(p) with len(p) = plen: [m, err, bytes, r]
RdRead(r, plen) ==
    IF r.fails /\ r.pos = r.errAt
    THEN [m |-> 0, err |-> "src", bytes |-> <<>>, r |-> r]
    ELSE LET avail == Len(r.src) - r.pos
             lim == IF r.fails /\ r.errAt > r.pos
                    THEN Min(avail, r.errAt - r.pos) ELSE avail
             m == Min(Min(plen, r.chunk), lim)
         IN  IF avail <= 0 THEN [m |-> 0, err |-> "EOF", bytes |-> <<>>, r |-> r]
             ELSE [m |-> m,
                   err |-> IF r.eofWithData /\ m = avail THEN "EOF" ELSE "nil",
                   bytes |-> SubSeq(r.src, r.pos + 1, r.pos + m),
                   r |-> [r EXCEPT !.pos = r.pos + m]]

\* what ReadFrom returns: as Ret, with the reader afterwards and the first index touched
RetRd(h, n, err, r, from) ==
    [f |-> h, n |-> n, err |-> err, buf |-> <<>>, fault |-> FALSE,
     idx |-> Touched(from, n), r |-> r]

\* one turn of ReadFrom's loop, or the probe that follows it: done with the
\* result res, or the handle, the reader and the count to go on with
ReadFromStep(h, r, n, from) ==
    IF h.offset < Len(h.data)
    THEN IF ~SliceFromOk(h.data, h.offset)
         THEN [done |-> TRUE,
               res |-> [f |-> h, n |-> n, err |-> "panic", buf |-> <<>>, fault |-> TRUE,
                        idx |-> Touched(from, n), r |-> r]]
         ELSE LET got == RdRead(r, Len(SliceFrom(h.data, h.offset)))
                  h2 == [h EXCEPT !.data = CopyAt(h.data, h.offset, got.bytes),
                                  !.offset = Wrap(h.offset + got.m)]
                  n2 == n + got.m
              IN  IF got.err = "EOF"
                  THEN [done |-> TRUE, res |-> RetRd(h2, n2, "nil", got.r, from)]
                  ELSE IF got.err # "nil"
                  THEN [done |-> TRUE, res |-> RetRd(h2, n2, got.err, got.r, from)]
                  ELSE [done |-> FALSE, f |-> h2, r |-> got.r, n |-> n2]
    ELSE LET probe == RdRead(r, 1)
         IN  IF probe.err = "nil" \/ probe.err # "EOF"
             THEN [done |-> TRUE, res |-> RetRd(h, n, "WriteOutOfBounds", probe.r, from)]
             ELSE [done |-> TRUE, res |-> RetRd(h, n, "nil", probe.r, from)]

\* the loop of ReadFrom and the probe that follows it
RECURSIVE ReadFromLoop(_, _, _, _)
ReadFromLoop(h, r, n, from) ==
    LET step == ReadFromStep(h, r, n, from)
    IN  IF step.done THEN step.res
        ELSE ReadFromLoop(step.f, step.r, step.n, from)

\* ReadFrom without its check of the writable flag
ReadFrom_NoReadOnlyCheck(h, r) ==
    IF h.closed THEN RetRd(h, 0, "Closed", r, h.offset)
    ELSE ReadFromLoop(h, r, 0, h.offset)

\* func (f *MmapFile) ReadFrom(r io.Reader) (n int64, err error)
ReadFrom(h, r) ==
    IF h.closed THEN RetRd(h, 0, "Closed", r, h.offset)
    ELSE IF ~h.writable THEN RetRd(h, 0, "ReadOnly", r, h.offset)
    ELSE ReadFromLoop(h, r, 0, h.offset)

\* a writer accepts at most accept bytes of one Write and fails when offered more
\* (failingWriter of the tests); [n, err, got]
Writers == [accept : 0..MaxLen]
WrWrite(w, p) ==
    IF Len(p) > w.accept
    THEN [n |-> w.accept, err |-> "sink", got |-> SubSeq(p, 1, w.accept)]
    ELSE [n |-> Len(p), err |-> "nil", got |-> p]

\* what WriteTo returns: as RetIdx, with the number of w.Write calls made and
\* the bytes handed to the last of them
RetWr(h, n, err, got, idx, writes, offered) ==
    [f |-> h, n |-> n, err |-> err, buf |-> got, fault |-> FALSE, idx |-> idx,
     writes |-> writes, offered |-> offered]

\* WriteTo handing the writer the region from the cursor on
WriteTo_FromCursor(h, w) ==
    IF h.closed THEN RetWr(h, 0, "Closed", <<>>, {}, 0, <<>>)
    ELSE LET rest == IF SliceFromOk(h.data, h.offset)
                     THEN SliceFrom(h.data, h.offset) ELSE <<>>
             res == WrWrite(w, rest)
         IN  RetWr(h, res.n, res.err, res.got, Touched(h.offset, Len(rest)), 1, rest)

\* func (f *MmapFile) WriteTo(w io.Writer) (n int64, err error)
\* buf is what the writer took; the whole region is handed to it
WriteTo(h, w) ==
    IF h.closed THEN RetWr(h, 0, "Closed", <<>>, {}, 0, <<>>)
    ELSE LET res == WrWrite(w, h.data)
         IN  RetWr(h, res.n, res.err, res.got, Touched(0, Len(h.data)), 1, h.data)

-----------------------------------------------------------------------------
(* Stat, Sync and Close, per build.  s is what the handle owns outside the *)
(* struct: file (the file's bytes as a new open would see them), size (the *)
(* fileSize OpenFile mapped), mapped                                       *)
(* (the mmap region is live), munmaps (calls of syscall.Munmap), finalizer *)
(* (runtime.SetFinalizer is armed) and fhOpen (the retained *os.File is    *)
(* open).  fail names the native call that fails, k the bytes a failing    *)
(* file.Write still wrote.                                                 *)

RetSys(h, s, err, calls) == [f |-> h, sys |-> s, err |-> err, calls |-> calls]

\* fh.file != nil for the fileHolder in f.platform
HasFile(h) == h.platform = "fileHolder"

\* func (f *MmapFile) Stat() (os.FileInfo, error); n is FileInfo.Size()
Stat(h, s, fail) ==
    IF h.closed THEN [f |-> h, n |-> 0, err |-> "Closed", calls |-> <<>>]
    ELSE LET call == IF HasFile(h) THEN "file.Stat" ELSE "os.Stat"
         IN  IF fail = call THEN [f |-> h, n |-> 0, err |-> "os", calls |-> <<call>>]
             ELSE [f |-> h, n |-> Len(s.file), err |-> "nil", calls |-> <<call>>]

\* fh.file.Write(f.data) after Seek(0, io.SeekStart): the first k bytes reach the file
FileWrite(file, d, k) ==
    [i \in 1..Max(Len(file), k) |-> IF i <= k THEN d[i] ELSE file[i]]

\* mmapfile_unix.go: func (f *MmapFile) Sync() error
SyncUnix(h, s, fail) ==
    IF h.closed THEN RetSys(h, s, "Closed", <<>>)
    ELSE IF ~h.writable \/ Len(h.data) = 0 THEN RetSys(h, s, "nil", <<>>)
    ELSE IF fail = "msync" THEN RetSys(h, s, "errno", <<"msync">>)
    ELSE RetSys(h, s, "nil", <<"msync">>)

\* the fallback Sync writing the buffer back whether or not the handle is writable
SyncOther_NoWritableCheck(h, s, fail, k) ==
    IF h.closed THEN RetSys(h, s, "Closed", <<>>)
    ELSE IF ~HasFile(h) \/ Len(h.data) = 0
    THEN RetSys(h, s, "nil", <<>>)
    ELSE IF fail = "seek" THEN RetSys(h, s, "os", <<"seek">>)
    ELSE IF fail = "write"
    THEN RetSys(h, [s EXCEPT !.file = FileWrite(s.file, h.data, k)], "os",
                <<"seek", "write">>)
    ELSE LET s2 == [s EXCEPT !.file = FileWrite(s.file, h.data, Len(h.data))]
         IN  RetSys(h, s2, IF fail = "sync" THEN "os" ELSE "nil",
                    <<"seek", "write", "sync">>)

\* the fallback Sync flushing the file without writing the buffer to it
SyncOther_NoWrite(h, s, fail, k) ==
    IF h.closed THEN RetSys(h, s, "Closed", <<>>)
    ELSE IF ~h.writable \/ ~HasFile(h) \/ Len(h.data) = 0
    THEN RetSys(h, s, "nil", <<>>)
    ELSE IF fail = "seek" THEN RetSys(h, s, "os", <<"seek">>)
    ELSE IF fail = "write"
    THEN RetSys(h, [s EXCEPT !.file = FileWrite(s.file, h.data, k)], "os",
                <<"seek", "write">>)
    ELSE LET s2 == s
         IN  RetSys(h, s2, IF fail = "sync" THEN "os" ELSE "nil",
                    <<"seek", "write", "sync">>)

\* mmapfile_other.go: func (f *MmapFile) Sync() error
SyncOther(h, s, fail, k) ==
    IF h.closed THEN RetSys(h, s, "Closed", <<>>)
    ELSE IF ~h.writable \/ ~HasFile(h) \/ Len(h.data) = 0
    THEN RetSys(h, s, "nil", <<>>)
    ELSE IF fail = "seek" THEN RetSys(h, s, "os", <<"seek">>)
    ELSE IF fail = "write"
    THEN RetSys(h, [s EXCEPT !.file = FileWrite(s.file, h.data, k)], "os",
                <<"seek", "write">>)
    ELSE LET s2 == [s EXCEPT !.file = FileWrite(s.file, h.data, Len(h.data))]
         IN  RetSys(h, s2, IF fail = "sync" THEN "os" ELSE "nil",
                    <<"seek", "write", "sync">>)

\* Close releasing the mapping without setting f.closed
CloseUnix_NoFlag(h, s, fail) ==
    IF h.closed THEN RetSys(h, s, "nil", <<>>)
    ELSE LET h2 == [h EXCEPT !.data = <<>>]
             s2 == [s EXCEPT !.finalizer = FALSE]
         IN  IF Len(h.data) = 0 THEN RetSys(h2, s2, "nil", <<>>)
             ELSE RetSys(h2,
                         [s2 EXCEPT !.mapped = (fail = "munmap"),
                                    !.munmaps = s.munmaps + 1],
                         IF fail = "munmap" THEN "errno" ELSE "nil",
                         <<"munmap">>)

\* Close without runtime.SetFinalizer(f, nil): the finalizer stays set
CloseUnix_KeepFinalizer(h, s, fail) ==
    IF h.closed THEN RetSys(h, s, "nil", <<>>)
    ELSE LET h2 == [h EXCEPT !.closed = TRUE, !.data = <<>>]
             s2 == s
         IN  IF Len(h.data) = 0 THEN RetSys(h2, s2, "nil", <<>>)
             ELSE RetSys(h2,
                         [s2 EXCEPT !.mapped = (fail = "munmap"),
                                    !.munmaps = s.munmaps + 1],
                         IF fail = "munmap" THEN "errno" ELSE "nil",
                         <<"munmap">>)

\* mmapfile_unix.go: func (f *MmapFile) Close() error
CloseUnix(h, s, fail) ==
    IF h.closed THEN RetSys(h, s, "nil", <<>>)
    ELSE LET h2 == [h EXCEPT !.closed = TRUE, !.data = <<>>]
             s2 == [s EXCEPT !.finalizer = FALSE]
         IN  IF Len(h.data) = 0 THEN RetSys(h2, s2, "nil", <<>>)
             ELSE RetSys(h2,
                         [s2 EXCEPT !.mapped = (fail = "munmap"),
                                    !.munmaps = s.munmaps + 1],
                         IF fail = "munmap" THEN "errno" ELSE "nil",
                         <<"munmap">>)

\* the fallback Close leaving the handle open when the write-back fails
CloseOther_OpenOnFailure(h, s, fail, k) ==
    IF h.closed THEN RetSys(h, s, "nil", <<>>)
    ELSE LET h2 == [h EXCEPT !.closed = ~(h.writable /\ fail \in {"seek", "write"}), !.data = <<>>, !.platform = "nil"]
         IN  IF ~HasFile(h) THEN RetSys([h2 EXCEPT !.platform = h.platform], s, "nil", <<>>)
             ELSE LET wb == h.writable /\ Len(h.data) > 0
                      seekFails == wb /\ fail = "seek"
                      writeFails == wb /\ fail = "write"
                      written == IF ~wb \/ seekFails THEN 0
                                 ELSE IF writeFails THEN k ELSE Len(h.data)
                      err == IF seekFails \/ writeFails \/ fail = "close"
                             THEN "os" ELSE "nil"
                      calls == (IF ~wb THEN <<>>
                                ELSE IF seekFails THEN <<"seek">>
                                ELSE <<"seek", "write">>) \o <<"close">>
                  IN  RetSys(h2,
                             [s EXCEPT !.file = FileWrite(s.file, h.data, written),
                                       !.fhOpen = FALSE],
                             err, calls)

\* mmapfile_other.go: func (f *MmapFile) Close() error
CloseOther(h, s, fail, k) ==
    IF h.closed THEN RetSys(h, s, "nil", <<>>)
    ELSE LET h2 == [h EXCEPT !.closed = TRUE, !.data = <<>>, !.platform = "nil"]
         IN  IF ~HasFile(h) THEN RetSys([h2 EXCEPT !.platform = h.platform], s, "nil", <<>>)
             ELSE LET wb == h.writable /\ Len(h.data) > 0
                      seekFails == wb /\ fail = "seek"
                      writeFails == wb /\ fail = "write"
                      written == IF ~wb \/ seekFails THEN 0
                                 ELSE IF writeFails THEN k ELSE Len(h.data)
                      err == IF seekFails \/ writeFails \/ fail = "close"
                             THEN "os" ELSE "nil"
                      calls == (IF ~wb THEN <<>>
                                ELSE IF seekFails THEN <<"seek">>
                                ELSE <<"seek", "write">>) \o <<"close">>
                  IN  RetSys(h2,
                             [s EXCEPT !.file = FileWrite(s.file, h.data, written),
                                       !.fhOpen = FALSE],
                             err, calls)

\* every store into the region reaching the file at once, in the fallback build too
Shared_AllBuilds(os, s, h) ==
    IF ~h.closed THEN [s EXCEPT !.file = h.data] ELSE s

\* a store into a live MAP_SHARED mapping is a store into the file's pages
Shared(os, s, h) ==
    IF os = "unix" /\ s.mapped /\ ~h.closed THEN [s EXCEPT !.file = h.data] ELSE s

-----------------------------------------------------------------------------
(* The state machine: one handle as OpenFile returns it, driven by one     *)
(* caller.                                                                 *)

Builds == {"unix", "other"}
Whences == {SeekStart, SeekCurrent, SeekEnd, SeekEnd + 1}

\* the handle OpenFile returns for a file holding d (the &MmapFile{...} literals)
NewHandle(os, d, w) ==
    [data |-> d, offset |-> 0, writable |-> w, closed |-> FALSE,
     platform |-> IF os = "other" THEN "fileHolder" ELSE "nil"]

\* what OpenFile leaves behind it: unix maps a non-empty file, arms the finalizer
\* and closes the descriptor; the fallback keeps the *os.File
NewSys(os, d) ==
    [file |-> d, size |-> Len(d),
     mapped |-> (os = "unix" /\ Len(d) > 0), munmaps |-> 0,
     finalizer |-> (os = "unix" /\ Len(d) > 0),
     fhOpen |-> (os = "other")]

\* no call is in progress: the caller has taken the last result
Idle == [op |-> "idle"]
\* f.mu with no holder: w the goroutine holding Lock, r those holding RLock
Unlocked == [w |-> {}, r |-> {}]
\* a single caller: no other goroutine
NoProcs == <<>>
Call(op, arg, res) == [op |-> op, arg |-> arg, pre |-> f, presys |-> sys, res |-> res]

Init ==
    /\ goos \in Builds
    /\ \E d \in Regions, w \in BOOLEAN :
          /\ f = NewHandle(goos, d, w)
          /\ sys = NewSys(goos, d)
    /\ last = Idle
    /\ mu = Unlocked
    /\ procs = NoProcs

\* a method that touches only the struct (and, through the mapping, the file);
\* a Seek that would leave the cursor beyond MaxOff is not followed
Method(op, arg, res) ==
    /\ last = Idle
    /\ res.f.offset <= MaxOff
    /\ f' = res.f
    /\ sys' = Shared(goos, sys, res.f)
    /\ last' = Call(op, arg, res)
    /\ UNCHANGED <<goos, mu, procs>>

DoLen == Method("Len", <<>>, Ret(f, LenOf(f), "nil", <<>>))

DoBytes == Method("Bytes", <<>>, Ret(f, Len(BytesOf(f)), "nil", BytesOf(f)))

DoRead == \E b \in RBufs : Method("Read", [b |-> b], Read(f, b))

DoReadAt == \E b \in RBufs, off \in OffArgs :
    Method("ReadAt", [b |-> b, off |-> off], ReadAt(f, b, off))

DoWrite == \E b \in Bufs : Method("Write", [b |-> b], Write(f, b))

DoWriteAt == \E b \in Bufs, off \in OffArgs :
    Method("WriteAt", [b |-> b, off |-> off], WriteAt(f, b, off))

DoWriteString == \E b \in Bufs : Method("WriteString", [b |-> b], WriteString(f, b))

DoSeek == \E offset \in SeekArgs, whence \in Whences :
    Method("Seek", [offset |-> offset, whence |-> whence], Seek(f, offset, whence))

DoReadFrom == \E r \in Readers : Method("ReadFrom", [r |-> r], ReadFrom(f, r))

DoWriteTo == \E w \in Writers : Method("WriteTo", [w |-> w], WriteTo(f, w))

\* a method that makes native calls
Native(op, arg, res) ==
    /\ last = Idle
    /\ f' = res.f
    /\ sys' = res.sys
    /\ last' = Call(op, arg, res)
    /\ UNCHANGED <<goos, mu, procs>>

DoStat == \E fail \in {"none", "file.Stat", "os.Stat"} :
    Native("Stat", [fail |-> fail], Stat(f, sys, fail) @@ [sys |-> sys])

DoSync ==
    \/ /\ goos = "unix"
       /\ \E fail \in {"none", "msync"} :
             Native("Sync", [fail |-> fail], SyncUnix(f, sys, fail))
    \/ /\ goos = "other"
       /\ \E fail \in {"none", "seek", "write", "sync"}, k \in 0..MaxLen :
             /\ k < Len(f.data) \/ k = 0
             /\ Native("Sync", [fail |-> fail, k |-> k], SyncOther(f, sys, fail, k))

DoClose ==
    \/ /\ goos = "unix"
       /\ \E fail \in {"none", "munmap"} :
             Native("Close", [fail |-> fail], CloseUnix(f, sys, fail))
    \/ /\ goos = "other"
       /\ \E fail \in {"none", "seek", "write", "close"}, k \in 0..MaxLen :
             /\ k < Len(f.data) \/ k = 0
             /\ Native("Close", [fail |-> fail, k |-> k], CloseOther(f, sys, fail, k))

\* the call returns: the caller takes the result and may call again
Return ==
    /\ last # Idle
    /\ last' = Idle
    /\ UNCHANGED <<f, sys, goos, mu, procs>>

Next ==
    \/ Return
    \/ DoLen
    \/ DoBytes
    \/ DoRead
    \/ DoReadAt
    \/ DoWrite
    \/ DoWriteAt
    \/ DoWriteString
    \/ DoSeek
    \/ DoReadFrom
    \/ DoWriteTo
    \/ DoStat
    \/ DoSync
    \/ DoClose

Spec == Init /\ [][Next]_vars

-----------------------------------------------------------------------------
(* OpenFile.  Before a handle exists sys is the file system entry of the   *)
(* path: whether it exists and the bytes it holds.  flag holds the bits of *)
(* the flag argument that OpenFile looks at; perm is not modelled.  fail   *)
(* names the native call that fails ("map" is syscall.Mmap, or io.ReadFull *)
(* in the fallback build).                                                  *)

\* no handle: the nil *MmapFile
NoHandle == [nil |-> TRUE]

OpenFlags == [rdwr : BOOLEAN, wronly : BOOLEAN, create : BOOLEAN,
              trunc : BOOLEAN, append : BOOLEAN]
OpenSizes == (-1)..MaxLen
OpenFails == {"none", "open", "stat", "truncate", "map"}
Disks == [file : Regions, exists : {TRUE}] \cup [file : {<<>>}, exists : {FALSE}]

\* f.Truncate(size) on the bytes d: cut, or extend with zero bytes
Truncate(d, size) == [i \in 1..size |-> IF i <= Len(d) THEN d[i] ELSE 0]

RetOpen(h, s, err, calls) == [f |-> h, sys |-> s, err |-> err, calls |-> calls]

\* OpenFile without the branch that resizes for O_TRUNC
OpenFile_NoTruncBranch(os, disk, flag, size, fail) ==
    LET writable == flag.rdwr \/ flag.wronly
        create == flag.create
        trunc == flag.trunc
    IN  IF flag.append THEN RetOpen(NoHandle, disk, "append", <<>>)
        ELSE IF fail = "open" \/ (~disk.exists /\ ~create)
        THEN RetOpen(NoHandle, disk, "os", <<"open">>)
        ELSE
        LET opened == [file |-> disk.file, exists |-> TRUE]
            fileSize == Len(opened.file)
            resize == create /\ fileSize = 0 /\ size > 0
            resized == IF resize THEN [opened EXCEPT !.file = Truncate(opened.file, size)]
                       ELSE opened
            toResize == IF resize THEN <<"truncate">> ELSE <<>>
        IN  IF fail = "stat"
            THEN RetOpen(NoHandle, opened, "os", <<"open", "stat", "close">>)
            ELSE IF resize /\ (fail = "truncate" \/ ~writable)
            THEN RetOpen(NoHandle, opened, "truncate",
                         <<"open", "stat", "truncate", "close">>)
            ELSE IF Len(resized.file) = 0
            THEN RetOpen(NewHandle(os, <<>>, writable), NewSys(os, <<>>), "nil",
                         <<"open", "stat">> \o toResize
                            \o (IF os = "unix" THEN <<"close">> ELSE <<>>))
            ELSE IF fail = "map"
            THEN RetOpen(NoHandle, resized, "map",
                         <<"open", "stat">> \o toResize \o <<"map", "close">>)
            ELSE RetOpen(NewHandle(os, resized.file, writable),
                         NewSys(os, resized.file), "nil",
                         <<"open", "stat">> \o toResize \o <<"map">>
                            \o (IF os = "unix" THEN <<"close">> ELSE <<>>))

\* OpenFile with the append flag tested only after os.OpenFile has run
OpenFile_AppendAfterOpen(os, disk, flag, size, fail) ==
    LET writable == flag.rdwr \/ flag.wronly
        create == flag.create
        trunc == flag.trunc
    IN  IF fail = "open" \/ (~disk.exists /\ ~create)
        THEN RetOpen(NoHandle, disk, "os", <<"open">>)
        ELSE IF flag.append
        THEN RetOpen(NoHandle, [file |-> disk.file, exists |-> TRUE], "append",
                     <<"open", "close">>)
        ELSE
        LET opened == [file |-> disk.file, exists |-> TRUE]
            fileSize == Len(opened.file)
            resize == (create /\ fileSize = 0 /\ size > 0) \/ (trunc /\ size > 0)
            resized == IF resize THEN [opened EXCEPT !.file = Truncate(opened.file, size)]
                       ELSE opened
            toResize == IF resize THEN <<"truncate">> ELSE <<>>
        IN  IF fail = "stat"
            THEN RetOpen(NoHandle, opened, "os", <<"open", "stat", "close">>)
            ELSE IF resize /\ (fail = "truncate" \/ ~writable)
            THEN RetOpen(NoHandle, opened, "truncate",
                         <<"open", "stat", "truncate", "close">>)
            ELSE IF Len(resized.file) = 0
            THEN RetOpen(NewHandle(os, <<>>, writable), NewSys(os, <<>>), "nil",
                         <<"open", "stat">> \o toResize
                            \o (IF os = "unix" THEN <<"close">> ELSE <<>>))
            ELSE IF fail = "map"
            THEN RetOpen(NoHandle, resized, "map",
                         <<"open", "stat">> \o toResize \o <<"map", "close">>)
            ELSE RetOpen(NewHandle(os, resized.file, writable),
                         NewSys(os, resized.file), "nil",
                         <<"open", "stat">> \o toResize \o <<"map">>
                            \o (IF os = "unix" THEN <<"close">> ELSE <<>>))

\* OpenFile without the zero-size return: an empty file is handed to the mapping call
OpenFile_MapsEmpty(os, disk, flag, size, fail) ==
    LET writable == flag.rdwr \/ flag.wronly
        create == flag.create
        trunc == flag.trunc
    IN  IF flag.append THEN RetOpen(NoHandle, disk, "append", <<>>)
        ELSE IF fail = "open" \/ (~disk.exists /\ ~create)
        THEN RetOpen(NoHandle, disk, "os", <<"open">>)
        ELSE
        LET opened == [file |-> disk.file, exists |-> TRUE]
            fileSize == Len(opened.file)
            resize == (create /\ fileSize = 0 /\ size > 0) \/ (trunc /\ size > 0)
            resized == IF resize THEN [opened EXCEPT !.file = Truncate(opened.file, size)]
                       ELSE opened
            toResize == IF resize THEN <<"truncate">> ELSE <<>>
        IN  IF fail = "stat"
            THEN RetOpen(NoHandle, opened, "os", <<"open", "stat", "close">>)
            ELSE IF resize /\ (fail = "truncate" \/ ~writable)
            THEN RetOpen(NoHandle, opened, "truncate",
                         <<"open", "stat", "truncate", "close">>)
            ELSE IF Len(resized.file) < 0
            THEN RetOpen(NewHandle(os, <<>>, writable), NewSys(os, <<>>), "nil",
                         <<"open", "stat">> \o toResize
                            \o (IF os = "unix" THEN <<"close">> ELSE <<>>))
            ELSE IF fail = "map"
            THEN RetOpen(NoHandle, resized, "map",
                         <<"open", "stat">> \o toResize \o <<"map", "close">>)
            ELSE RetOpen(NewHandle(os, resized.file, writable),
                         NewSys(os, resized.file), "nil",
                         <<"open", "stat">> \o toResize \o <<"map">>
                            \o (IF os = "unix" THEN <<"close">> ELSE <<>>))

\* func OpenFile(name string, flag int, perm os.FileMode, size int64) (*MmapFile, error)
OpenFile(os, disk, flag, size, fail) ==
    LET writable == flag.rdwr \/ flag.wronly
        create == flag.create
        trunc == flag.trunc
    IN  IF flag.append THEN RetOpen(NoHandle, disk, "append", <<>>)
        ELSE IF fail = "open" \/ (~disk.exists /\ ~create)
        THEN RetOpen(NoHandle, disk, "os", <<"open">>)
        ELSE
        LET opened == [file |-> disk.file, exists |-> TRUE]
            fileSize == Len(opened.file)
            resize == (create /\ fileSize = 0 /\ size > 0) \/ (trunc /\ size > 0)
            resized == IF resize THEN [opened EXCEPT !.file = Truncate(opened.file, size)]
                       ELSE opened
            toResize == IF resize THEN <<"truncate">> ELSE <<>>
        IN  IF fail = "stat"
            THEN RetOpen(NoHandle, opened, "os", <<"open", "stat", "close">>)
            ELSE IF resize /\ (fail = "truncate" \/ ~writable)
            THEN RetOpen(NoHandle, opened, "truncate",
                         <<"open", "stat", "truncate", "close">>)
            ELSE IF Len(resized.file) = 0
            THEN RetOpen(NewHandle(os, <<>>, writable), NewSys(os, <<>>), "nil",
                         <<"open", "stat">> \o toResize
                            \o (IF os = "unix" THEN <<"close">> ELSE <<>>))
            ELSE IF fail = "map"
            THEN RetOpen(NoHandle, resized, "map",
                         <<"open", "stat">> \o toResize \o <<"map", "close">>)
            ELSE RetOpen(NewHandle(os, resized.file, writable),
                         NewSys(os, resized.file), "nil",
                         <<"open", "stat">> \o toResize \o <<"map">>
                            \o (IF os = "unix" THEN <<"close">> ELSE <<>>))

\* func Open(name string) (*MmapFile, error)
ReadOnlyFlag == [rdwr |-> FALSE, wronly |-> FALSE, create |-> FALSE,
                 trunc |-> FALSE, append |-> FALSE]
Open(os, disk, fail) == OpenFile(os, disk, ReadOnlyFlag, 0, fail)

InitOpen ==
    /\ goos \in Builds
    /\ f = NoHandle
    /\ sys \in Disks
    /\ last = Idle
    /\ mu = Unlocked
    /\ procs = NoProcs

DoOpenFile ==
    /\ last = Idle
    /\ f = NoHandle
    /\ \E flag \in OpenFlags, size \in OpenSizes, fail \in OpenFails :
          LET res == OpenFile(goos, sys, flag, size, fail)
          IN  /\ f' = res.f
              /\ sys' = res.sys
              /\ last' = Call("OpenFile", [flag |-> flag, size |-> size, fail |-> fail], res)
    /\ UNCHANGED <<goos, mu, procs>>

DoOpen ==
    /\ last = Idle
    /\ f = NoHandle
    /\ \E fail \in OpenFails :
          LET res == Open(goos, sys, fail)
          IN  /\ f' = res.f
              /\ sys' = res.sys
              /\ last' = Call("Open", [flag |-> ReadOnlyFlag, size |-> 0, fail |-> fail], res)
    /\ UNCHANGED <<goos, mu, procs>>

NextOpen ==
    \/ DoOpenFile
    \/ DoOpen
    \/ Return

SpecOpen == InitOpen /\ [][NextOpen]_vars

\* a handle from its opening on: the path is opened once and the handle the
\* call returned, if any, is then driven by one caller
NextLife ==
    \/ DoOpenFile
    \/ DoOpen
    \/ f # NoHandle /\ Next

SpecLife == InitOpen /\ [][NextLife]_vars

-----------------------------------------------------------------------------
(* Two goroutines calling methods of one handle at the same time.  A call  *)
(* takes f.mu (Acquire), runs the method's checks (Check), moves its bytes *)
(* one at a time (Copy: copy() is not atomic; for ReadFrom one r.Read per  *)
(* step), and returns, releasing f.mu (Release).  A method that moves no   *)
(* bytes through copy() does its whole body in Check.  last records the    *)
(* state in which the goroutines were started.                             *)

Procs == {"g1", "g2"}

\* the lock a method takes in its first statement
LockMode_CloseShared(op, os) ==
    IF op \in {"Read", "Write", "Seek", "ReadFrom"} THEN "Lock"
    ELSE IF op = "Sync" /\ os = "other" THEN "Lock"
    ELSE "RLock"

\* Read taking the lock of ReadAt
LockMode_ReadShared(op, os) ==
    IF op \in {"Write", "Seek", "ReadFrom", "Close"} THEN "Lock"
    ELSE IF op = "Sync" /\ os = "other" THEN "Lock"
    ELSE "RLock"

\* ReadFrom taking the read lock
LockMode_ReadFromShared(op, os) ==
    IF op \in {"Read", "Write", "Seek", "Close"} THEN "Lock"
    ELSE IF op = "Sync" /\ os = "other" THEN "Lock"
    ELSE "RLock"

\* f.mu.Lock() or f.mu.RLock(), per method and build
LockMode(op, os) ==
    IF op \in {"Read", "Write", "Seek", "ReadFrom", "Close"} THEN "Lock"
    ELSE IF op = "Sync" /\ os = "other" THEN "Lock"
    ELSE "RLock"

\* sync.RWMutex: Lock waits for every holder, RLock for a writer
CanLock(m) == m.w = {} /\ m.r = {}
CanRLock(m) == m.w = {}

\* the regions of concurrent runs: 1, 0, 1, ... of every length up to
\* ConcLen, which has room for two payloads side by side
ConcLen == MaxLen + 1
ConcRegions == {[i \in 1..k |-> i % 2] : k \in 0..ConcLen}
\* what goroutine p writes: k bytes of its own value
Payload(p, k) == [i \in 1..k |-> IF p = "g1" THEN 0 ELSE 1]
Payloads(p) == {Payload(p, k) : k \in 1..MaxBuf}
\* the buffers read into
ReadBufs == {b \in RBufs : Len(b) > 0}
\* the readers handed to ReadFrom: a byte per Read, io.EOF on its own
ConcReaders ==
    {r \in Readers : /\ ~r.fails
                     /\ ~r.eofWithData
                     /\ r.chunk = 1
                     /\ Len(r.src) \in {1, MaxLen + 1}}

\* the calls a goroutine may make
PosCalls(p) ==
    [op : {"WriteAt"}, b : Payloads(p), off : 0..ConcLen]
    \cup [op : {"ReadAt"}, b : ReadBufs, off : 0..ConcLen]
CurCalls(p) ==
    [op : {"Read"}, b : ReadBufs]
    \cup [op : {"Write"}, b : Payloads(p)]
    \cup [op : {"Seek"}, offset : (-1)..1, whence : {SeekStart, SeekCurrent, SeekEnd}]
    \cup [op : {"ReadFrom"}, r : ConcReaders]
    \cup [op : {"Len"}]
OtherCalls(p) ==
    [op : {"WriteTo"}, w : {w \in Writers : w.accept = MaxLen}]
    \cup [op : {"Sync"}, fail : {"none"}, k : {0}]
\* g1 closes while g2 makes any other call
CloseCalls(p) ==
    IF p = "g1" THEN [op : {"Close"}, fail : {"none"}, k : {0}]
    ELSE PosCalls(p) \cup CurCalls(p) \cup OtherCalls(p)

\* the methods that move bytes with copy()
CopyOps == {"Read", "ReadAt", "Write", "WriteAt"}
\* the methods that read and write f.offset
CursorOps == {"Read", "Write", "Seek", "ReadFrom"}

\* the call c made by a single caller on the handle h
MethodRes(h, c) ==
    CASE c.op = "Len" -> Ret(h, LenOf(h), "nil", <<>>)
      [] c.op = "Read" -> Read(h, c.b)
      [] c.op = "ReadAt" -> ReadAt(h, c.b, c.off)
      [] c.op = "Write" -> Write(h, c.b)
      [] c.op = "WriteAt" -> WriteAt(h, c.b, c.off)
      [] c.op = "Seek" -> Seek(h, c.offset, c.whence)
      [] c.op = "ReadFrom" -> ReadFrom(h, c.r)
      [] c.op = "WriteTo" -> WriteTo(h, c.w)
NativeRes(h, s, os, c) ==
    CASE c.op = "Sync" ->
            IF os = "unix" THEN SyncUnix(h, s, c.fail) ELSE SyncOther(h, s, c.fail, c.k)
      [] c.op = "Close" ->
            IF os = "unix" THEN CloseUnix(h, s, c.fail) ELSE CloseOther(h, s, c.fail, c.k)
\* the handle and the file it leaves, and the count, error and buffer it returns
Run(h, s, os, c) ==
    IF c.op \in {"Sync", "Close"}
    THEN LET r == NativeRes(h, s, os, c)
         IN  [f |-> r.f, sys |-> r.sys, n |-> 0, err |-> r.err, buf |-> <<>>]
    ELSE LET r == MethodRes(h, c)
         IN  [f |-> r.f, sys |-> Shared(os, s, r.f), n |-> r.n, err |-> r.err,
              buf |-> r.buf]

\* a goroutine: pc its position; call what it calls; n, err, buf what it
\* returns (buf the caller's buffer); from, idx, img what Check found: the
\* first region index, the region indices and, for a write, the region as the
\* copy leaves it; i the bytes moved so far; rd the reader of ReadFrom; torn
\* whether it touched the region when the region was gone
IdleProc ==
    [pc |-> "idle", call |-> [op |-> "none"], n |-> 0, err |-> "nil", buf |-> <<>>,
     from |-> 0, idx |-> {}, img |-> <<>>, i |-> 0, rd |-> [op |-> "none"],
     torn |-> FALSE]

\* the state in which the goroutines start
Started == [op |-> "go", pre |-> f, presys |-> sys]

ConcInit ==
    /\ goos \in Builds
    /\ \E d \in ConcRegions, w \in BOOLEAN :
          /\ f = NewHandle(goos, d, w)
          /\ sys = NewSys(goos, d)
    /\ last = Started
    /\ mu = Unlocked
    /\ procs = [p \in Procs |-> IdleProc]

\* go f.Method(args)
Go(p, calls) ==
    /\ procs[p].pc = "idle"
    /\ \E c \in calls :
          procs' = [procs EXCEPT ![p] = [@ EXCEPT !.pc = "lock", !.call = c]]
    /\ UNCHANGED <<f, sys, goos, last, mu>>

\* f.mu.Lock() or f.mu.RLock() returns
Acquire(p) ==
    /\ procs[p].pc = "lock"
    /\ IF LockMode(procs[p].call.op, goos) = "Lock"
       THEN CanLock(mu) /\ mu' = [mu EXCEPT !.w = {p}]
       ELSE CanRLock(mu) /\ mu' = [mu EXCEPT !.r = @ \cup {p}]
    /\ procs' = [procs EXCEPT ![p] = [@ EXCEPT !.pc = "check"]]
    /\ UNCHANGED <<f, sys, goos, last>>

\* the checks of the method, up to its copy; the whole body of a method
\* without one
Check(p) ==
    LET g == procs[p]
        c == g.call
    IN  /\ g.pc = "check"
        /\ IF c.op \in CopyOps
           THEN LET r == MethodRes(f, c)
                IN  /\ procs' = [procs EXCEPT ![p] =
                          [g EXCEPT !.pc = IF r.n > 0 THEN "copy" ELSE "unlock",
                                    !.n = r.n, !.err = r.err, !.buf = c.b,
                                    !.idx = r.idx, !.img = r.f.data,
                                    !.from = IF r.idx = {} THEN 0
                                             ELSE CHOOSE x \in r.idx :
                                                      \A y \in r.idx : x <= y]]
                    /\ UNCHANGED <<f, sys>>
           ELSE IF c.op = "ReadFrom"
           THEN /\ procs' = [procs EXCEPT ![p] =
                      IF f.closed THEN [g EXCEPT !.pc = "unlock", !.err = "Closed"]
                      ELSE IF ~f.writable
                      THEN [g EXCEPT !.pc = "unlock", !.err = "ReadOnly"]
                      ELSE [g EXCEPT !.pc = "copy", !.rd = c.r, !.from = f.offset]]
                /\ UNCHANGED <<f, sys>>
           ELSE LET r == Run(f, sys, goos, c)
                IN  /\ f' = r.f
                    /\ sys' = r.sys
                    /\ procs' = [procs EXCEPT ![p] =
                          [g EXCEPT !.pc = "unlock", !.n = r.n, !.err = r.err,
                                    !.buf = r.buf]]
        /\ UNCHANGED <<goos, last, mu>>

\* a store that puts back the whole region as Check saw it
CopyStore_Snapshot(d, img, j) == img

\* copy(f.data[off:], b) stores one byte: index j of the region takes its
\* byte of img, every other byte stays as it is now
CopyStore(d, img, j) == [d EXCEPT ![j + 1] = img[j + 1]]

\* copy() moves its next byte, or ReadFrom makes its next r.Read
Copy(p) ==
    LET g == procs[p]
        c == g.call
    IN  /\ g.pc = "copy"
        /\ IF c.op = "ReadFrom"
           THEN LET step == ReadFromStep(f, g.rd, g.n, g.from)
                IN  IF step.done
                    THEN /\ f' = step.res.f
                         /\ procs' = [procs EXCEPT ![p] =
                               [g EXCEPT !.pc = "unlock", !.n = step.res.n,
                                         !.err = step.res.err, !.rd = step.res.r,
                                         !.idx = step.res.idx]]
                    ELSE /\ f' = step.f
                         /\ procs' = [procs EXCEPT ![p] =
                               [g EXCEPT !.rd = step.r, !.n = step.n]]
           ELSE LET j == g.from + g.i
                    live == ~f.closed /\ j < Len(f.data)
                    store == c.op \in {"Write", "WriteAt"}
                IN  /\ f' = IF live /\ store
                            THEN [f EXCEPT !.data = CopyStore(f.data, g.img, j)]
                            ELSE f
                    /\ procs' = [procs EXCEPT ![p] =
                          [g EXCEPT !.pc = IF g.i + 1 = g.n THEN "unlock" ELSE "copy",
                                    !.i = g.i + 1,
                                    !.buf = IF live /\ ~store
                                            THEN [g.buf EXCEPT ![g.i + 1] = f.data[j + 1]]
                                            ELSE g.buf,
                                    !.torn = g.torn \/ ~live]]
        /\ sys' = Shared(goos, sys, f')
        /\ UNCHANGED <<goos, last, mu>>

\* the method returns: Read and Write add their count to f.offset, and the
\* deferred Unlock or RUnlock runs
Release(p) ==
    LET g == procs[p]
    IN  /\ g.pc = "unlock"
        /\ f' = IF g.call.op \in {"Read", "Write"}
                THEN [f EXCEPT !.offset = Wrap(f.offset + g.n)]
                ELSE f
        /\ mu' = [w |-> mu.w \ {p}, r |-> mu.r \ {p}]
        /\ procs' = [procs EXCEPT ![p] = [g EXCEPT !.pc = "done"]]
        /\ UNCHANGED <<sys, goos, last>>

\* ReadAt and WriteAt calls
NextPos ==
    \E p \in Procs :
        \/ Go(p, PosCalls(p))
        \/ Acquire(p)
        \/ Check(p)
        \/ Copy(p)
        \/ Release(p)

SpecPos == ConcInit /\ [][NextPos]_vars

\* Read, Write, Seek, ReadFrom and Len calls
NextCur ==
    \E p \in Procs :
        \/ Go(p, CurCalls(p))
        \/ Acquire(p)
        \/ Check(p)
        \/ Copy(p)
        \/ Release(p)

SpecCur == ConcInit /\ [][NextCur]_vars

\* a Close and one other call
NextClose ==
    \E p \in Procs :
        \/ Go(p, CloseCalls(p))
        \/ Acquire(p)
        \/ Check(p)
        \/ Copy(p)
        \/ Release(p)

SpecClose == ConcInit /\ [][NextClose]_vars

\* g1 calls ReadFrom while g2 makes any other call, Close included
FromCalls(p) ==
    IF p = "g1" THEN [op : {"ReadFrom"}, r : ConcReaders]
    ELSE {c \in PosCalls(p) \cup CurCalls(p) \cup OtherCalls(p) : c.op # "ReadFrom"}
         \cup [op : {"Close"}, fail : {"none"}, k : {0}]

NextFrom ==
    \E p \in Procs :
        \/ Go(p, FromCalls(p))
        \/ Acquire(p)
        \/ Check(p)
        \/ Copy(p)
        \/ Release(p)

SpecFrom == ConcInit /\ [][NextFrom]_vars

\* what goroutine p writes when the bytes must tell who wrote them and from
\* which index of the buffer: g1 writes 2, 3, g2 writes 4, 5
Marks(p) ==
    {[i \in 1..k |-> IF p = "g1" THEN Fill + i - 1 ELSE Fill + MaxBuf + i - 1] :
        k \in 1..MaxBuf}

\* WriteAt calls with such buffers, and ReadAt calls
MarkCalls(p) ==
    [op : {"WriteAt"}, b : Marks(p), off : 0..ConcLen]
    \cup [op : {"ReadAt"}, b : ReadBufs, off : 0..ConcLen]

NextMark ==
    \E p \in Procs :
        \/ Go(p, MarkCalls(p))
        \/ Acquire(p)
        \/ Check(p)
        \/ Copy(p)
        \/ Release(p)

SpecMark == ConcInit /\ [][NextMark]_vars

\* readers whose Read returns 0, nil whatever it is asked for, which the
\* io.Reader contract discourages and allows
StallReaders ==
    [src : {s \in SrcSeqs : Len(s) > 0}, pos : {0}, chunk : {0},
     eofWithData : {FALSE}, fails : {FALSE}, errAt : {0}]

\* g1 calls ReadFrom, with such a reader or another, while g2 makes any
\* other call
LiveCalls(p) ==
    IF p = "g1" THEN [op : {"ReadFrom"}, r : ConcReaders \cup StallReaders]
    ELSE FromCalls(p)

NextLive ==
    \E p \in Procs :
        \/ Go(p, LiveCalls(p))
        \/ Acquire(p)
        \/ Check(p)
        \/ Copy(p)
        \/ Release(p)

\* the scheduler leaves no goroutine that can take a step waiting for ever
FairLive ==
    \A p \in Procs :
        /\ WF_vars(Go(p, LiveCalls(p)))
        /\ WF_vars(Acquire(p))
        /\ WF_vars(Check(p))
        /\ WF_vars(Copy(p))
        /\ WF_vars(Release(p))

SpecLive == ConcInit /\ [][NextLive]_vars /\ FairLive

\* ReadFrom and WriteTo handed a source or a sink that calls a method of the
\* same handle: via is that method, Read for f.ReadFrom(f), Write for
\* f.WriteTo(f), Len for a reader or writer that asks the handle its length
SelfCalls ==
    [op : {"ReadFrom"}, via : {"Read", "Len"}]
    \cup [op : {"WriteTo"}, via : {"Write", "Len"}]

\* the checks of ReadFrom and WriteTo, up to the call of r.Read or w.Write
CheckSelf(p) ==
    LET g == procs[p]
    IN  /\ g.pc = "check"
        /\ procs' = [procs EXCEPT ![p] =
              IF f.closed THEN [g EXCEPT !.pc = "unlock", !.err = "Closed"]
              ELSE IF g.call.op = "ReadFrom" /\ ~f.writable
              THEN [g EXCEPT !.pc = "unlock", !.err = "ReadOnly"]
              ELSE [g EXCEPT !.pc = "inner"]]
        /\ UNCHANGED <<f, sys, goos, last, mu>>

\* r.Read or w.Write calls the method via of the handle, which starts with
\* f.mu.Lock() or f.mu.RLock() in the goroutine that holds f.mu already:
\* sync.RWMutex is not reentrant, the holder waits like anyone else.  Once
\* the lock is given the inner method runs and unlocks, and the outer call
\* goes on to its return.
InnerCall(p) ==
    LET g == procs[p]
    IN  /\ g.pc = "inner"
        /\ IF LockMode(g.call.via, goos) = "Lock" THEN CanLock(mu) ELSE CanRLock(mu)
        /\ procs' = [procs EXCEPT ![p] = [g EXCEPT !.pc = "unlock"]]
        /\ UNCHANGED <<f, sys, goos, last, mu>>

NextSelf ==
    \/ Go("g1", SelfCalls)
    \/ Acquire("g1")
    \/ CheckSelf("g1")
    \/ InnerCall("g1")
    \/ Release("g1")

FairSelf ==
    /\ WF_vars(Go("g1", SelfCalls))
    /\ WF_vars(Acquire("g1"))
    /\ WF_vars(CheckSelf("g1"))
    /\ WF_vars(InnerCall("g1"))
    /\ WF_vars(Release("g1"))

SpecSelf == ConcInit /\ [][NextSelf]_vars /\ FairSelf

\* g1 closes while g2 calls Stat
StatCalls(p) ==
    IF p = "g1" THEN [op : {"Close"}, fail : {"none"}, k : {0}]
    ELSE [op : {"Stat"}]

\* Stat under f.mu.RLock(): closed := f.closed
StatCheck(p) ==
    LET g == procs[p]
    IN  /\ g.pc = "check"
        /\ procs' = [procs EXCEPT ![p] =
              [g EXCEPT !.pc = "unlock", !.err = IF f.closed THEN "Closed" ELSE "nil"]]
        /\ UNCHANGED <<f, sys, goos, last, mu>>

\* f.mu.RUnlock(), and the return of ErrClosed if closed was set
StatUnlock(p) ==
    LET g == procs[p]
    IN  /\ g.pc = "unlock"
        /\ mu' = [w |-> mu.w \ {p}, r |-> mu.r \ {p}]
        /\ procs' = [procs EXCEPT ![p] =
              [g EXCEPT !.pc = IF g.err = "Closed" THEN "done" ELSE "load"]]
        /\ UNCHANGED <<f, sys, goos, last>>

\* fh, ok := f.platform.(*fileHolder), read without the lock; img keeps what
\* was read
StatLoad(p) ==
    LET g == procs[p]
    IN  /\ g.pc = "load"
        /\ procs' = [procs EXCEPT ![p] = [g EXCEPT !.pc = "call", !.img = <<f.platform>>]]
        /\ UNCHANGED <<f, sys, goos, last, mu>>

\* fh.file.Stat() if a file was found in f.platform, which fails on a file
\* that has been closed, os.Stat(name) if none was; n is FileInfo.Size(),
\* and torn records a call made on the closed file
StatCall(p) ==
    LET g == procs[p]
        held == g.img = <<"fileHolder">>
        gone == held /\ ~sys.fhOpen
    IN  /\ g.pc = "call"
        /\ procs' = [procs EXCEPT ![p] =
              [g EXCEPT !.pc = "done",
                        !.n = IF gone THEN 0 ELSE Len(sys.file),
                        !.err = IF gone THEN "os" ELSE "nil",
                        !.torn = gone]]
        /\ UNCHANGED <<f, sys, goos, last, mu>>

NextStat ==
    \/ \E p \in Procs : Go(p, StatCalls(p))
    \/ \E p \in Procs : Acquire(p)
    \/ Check("g1")
    \/ Release("g1")
    \/ StatCheck("g2")
    \/ StatUnlock("g2")
    \/ StatLoad("g2")
    \/ StatCall("g2")

SpecStat == ConcInit /\ [][NextStat]_vars

\* Close, its native call succeeding or failing, or Len, from either goroutine
ReleaseCalls(p) ==
    [op : {"Close"},
     fail : IF goos = "unix" THEN {"none", "munmap"} ELSE {"none", "write"},
     k : {0}]
    \cup [op : {"Len"}]

\* runtime.SetFinalizer(mf, (*MmapFile).Close): once every goroutine that held
\* the handle has returned the handle is unreachable, and the runtime runs
\* Close on it if the finalizer is still set
Finalize ==
    /\ sys.finalizer
    /\ \A p \in Procs : procs[p].pc = "done"
    /\ \E fail \in {"none", "munmap"} :
          LET r == CloseUnix(f, sys, fail)
          IN  /\ f' = r.f
              /\ sys' = r.sys
              /\ last' = [op |-> "finalizer", pre |-> f, presys |-> sys, res |-> r]
    /\ UNCHANGED <<goos, mu, procs>>

\* Close and Len calls, and the finalizer
NextRelease ==
    \/ \E p \in Procs :
          \/ Go(p, ReleaseCalls(p))
          \/ Acquire(p)
          \/ Check(p)
          \/ Release(p)
    \/ Finalize

SpecRelease == ConcInit /\ [][NextRelease]_vars

-----------------------------------------------------------------------------
(* Calls after Close.                                                      *)

\* the methods that return an error
ErrMethods ==
    {"Read", "Write", "WriteString", "Seek", "ReadAt", "WriteAt", "ReadFrom",
     "WriteTo", "Sync", "Stat"}
\* the methods that return a value only
ValueMethods == {"Len", "Bytes"}
InCall == last # Idle
AfterClose == InCall /\ last.pre.closed

\* C1 as stated: after Close, every call of an operation other than Close, Len
\* and Bytes included, fails with the Closed error.
C1_AllFailClosed ==
    (AfterClose /\ last.op \in ErrMethods \cup ValueMethods)
        => last.res.err = "Closed"

\* C1 as amended: after Close, every call of Read, Write, WriteString, Seek,
\* ReadAt, WriteAt, ReadFrom, WriteTo, Sync and Stat fails with the Closed error,
\* on read-only and writable handles and for any arguments, and moves nothing;
\* Len and Bytes, which return no error, return 0 and the nil slice.
C1_ClosedCalls ==
    AfterClose =>
        /\ last.op \in ErrMethods =>
              /\ last.res.err = "Closed"
              /\ last.op \notin {"Sync", "Stat"} => last.res.n = 0
              /\ f = last.pre
              /\ sys = last.presys
        /\ last.op \in {"Read", "ReadAt", "Write", "WriteAt", "WriteString"} =>
              last.res.buf = last.arg.b
        /\ last.op = "Len" => last.res.n = 0 /\ last.res.err = "nil"
        /\ last.op = "Bytes" => last.res.buf = <<>> /\ last.res.err = "nil"

\* a WriteAt with a non-empty buffer at offset 0 of a closed writable handle
C1_Witness ==
    /\ AfterClose
    /\ last.op = "WriteAt"
    /\ last.pre.writable
    /\ last.arg.off = 0
    /\ Len(last.arg.b) = MaxBuf
    /\ last.res.err = "Closed"

-----------------------------------------------------------------------------
(* Bounds of every access.                                                 *)

CopyMethods == {"Read", "ReadAt", "Write", "WriteAt", "WriteString", "ReadFrom", "WriteTo"}

\* C2: every region index that Read, ReadAt, Write, WriteAt, ReadFrom or WriteTo
\* reads or writes lies in [0, Len()), and no slice of the region is taken out
\* of range, whatever the offset, the cursor and the buffer length.
C2_InBounds ==
    (InCall /\ last.op \in CopyMethods) =>
        /\ ~last.res.fault
        /\ last.res.idx \subseteq 0..(Len(last.pre.data) - 1)

\* a Read with the cursor beyond the end of a non-empty region
C2_Witness ==
    /\ InCall
    /\ last.op = "Read"
    /\ ~last.pre.closed
    /\ Len(last.pre.data) > 0
    /\ last.pre.offset > Len(last.pre.data)
    /\ Len(last.arg.b) = MaxBuf

-----------------------------------------------------------------------------
(* Close.                                                                  *)

\* C3: the first Close marks the handle closed and releases the region (the
\* struct drops it; the mapping is unmapped when munmap succeeds; the fallback
\* closes its file); every later Close returns success, makes no native call and
\* changes no state; once closed, no call makes the handle open again.
C3_CloseIdempotent ==
    /\ (InCall /\ last.op = "Close" /\ ~last.pre.closed) =>
          /\ f.closed
          /\ f.data = <<>>
          /\ (goos = "unix" /\ last.presys.mapped) =>
                /\ last.res.calls = <<"munmap">>
                /\ sys.munmaps = last.presys.munmaps + 1
                /\ last.arg.fail = "none" => ~sys.mapped /\ last.res.err = "nil"
          /\ goos = "other" => ~sys.fhOpen /\ ~HasFile(f)
    /\ (InCall /\ last.op = "Close" /\ last.pre.closed) =>
          /\ last.res.err = "nil"
          /\ last.res.calls = <<>>
          /\ f = last.pre
          /\ sys = last.presys
    /\ AfterClose => f.closed

\* a second Close of a handle whose first Close unmapped a region
C3_Witness ==
    /\ InCall
    /\ last.op = "Close"
    /\ last.pre.closed
    /\ last.presys.munmaps = 1
    /\ last.res.err = "nil"

-----------------------------------------------------------------------------
(* The region length.                                                      *)

\* C4: from open until Close, Len() returns the size fixed at open: no Read,
\* Write, WriteString, Seek, ReadAt, WriteAt, ReadFrom, WriteTo, Sync or Stat
\* call, successful, partial or failed, changes the region length.
C4_LenFixed ==
    /\ ~f.closed => LenOf(f) = sys.size
    /\ InCall => sys.size = last.presys.size
    /\ (InCall /\ last.op = "Len" /\ ~last.pre.closed) => last.res.n = sys.size

\* Len on a writable handle whose cursor was moved to the end of a full-size region
C4_Witness ==
    /\ InCall
    /\ last.op = "Len"
    /\ ~last.pre.closed
    /\ last.pre.writable
    /\ sys.size = MaxLen
    /\ last.pre.offset = MaxLen
    /\ last.res.n = MaxLen

-----------------------------------------------------------------------------
(* ReadAt.                                                                 *)

\* C5: on an open handle, for 0 <= o < Len() ReadAt returns
\* n = min(len(buf), Len()-o) bytes equal to region[o .. o+n), with no error when
\* n = len(buf) and with io.EOF when n < len(buf); for o >= Len() it returns 0
\* bytes with io.EOF.
C5_ReadAt ==
    (InCall /\ last.op = "ReadAt" /\ ~last.pre.closed /\ last.arg.off >= 0) =>
        LET o == last.arg.off
            b == last.arg.b
            L == Len(last.pre.data)
            n == Min(Len(b), L - o)
        IN  /\ o < L =>
                  /\ last.res.n = n
                  /\ \A i \in 1..n : last.res.buf[i] = last.pre.data[o + i]
                  /\ last.res.err = IF n = Len(b) THEN "nil" ELSE "EOF"
            /\ o >= L => last.res.n = 0 /\ last.res.err = "EOF"
            /\ Len(last.res.buf) = Len(b)

\* a short ReadAt from inside the region: some bytes and io.EOF
C5_Witness ==
    /\ InCall
    /\ last.op = "ReadAt"
    /\ ~last.pre.closed
    /\ last.arg.off > 0
    /\ last.arg.off < Len(last.pre.data)
    /\ last.res.n > 0
    /\ last.res.n < Len(last.arg.b)
    /\ last.res.err = "EOF"

-----------------------------------------------------------------------------
(* WriteAt.                                                                *)

OpenWritable(h) == ~h.closed /\ h.writable

\* C6: on an open writable handle with o >= 0, WriteAt(b, o) fails OutOfBounds
\* with zero bytes written when o >= Len(); when o < Len() and o + len(b) > Len()
\* it writes the first Len()-o bytes of b at o and reports OutOfBounds with that
\* count; otherwise it writes all of b at o and succeeds.  Bytes of the region
\* outside the written range are unchanged.
C6_WriteAt ==
    (InCall /\ last.op = "WriteAt" /\ OpenWritable(last.pre) /\ last.arg.off >= 0) =>
        LET o == last.arg.off
            b == last.arg.b
            L == Len(last.pre.data)
            n == last.res.n
        IN  /\ o >= L => n = 0 /\ last.res.err = "WriteOutOfBounds"
            /\ (o < L /\ o + Len(b) > L) =>
                  n = L - o /\ last.res.err = "WriteOutOfBounds"
            /\ (o < L /\ o + Len(b) <= L) => n = Len(b) /\ last.res.err = "nil"
            /\ Len(f.data) = L
            /\ \A i \in 1..L :
                  f.data[i] = IF i > o /\ i <= o + n THEN b[i - o] ELSE last.pre.data[i]

\* a WriteAt inside the region that fits only in part and changes the byte it stores
C6_Witness ==
    /\ InCall
    /\ last.op = "WriteAt"
    /\ OpenWritable(last.pre)
    /\ last.arg.off > 0
    /\ last.res.n > 0
    /\ last.res.n < Len(last.arg.b)
    /\ last.res.err = "WriteOutOfBounds"
    /\ f.data # last.pre.data

\* C7 as stated: for every offset o < 0, ReadAt and WriteAt fail with
\* NegativeOffset and move zero bytes, whatever the handle.
C7_AlwaysNegativeOffset ==
    (InCall /\ last.op \in {"ReadAt", "WriteAt"} /\ last.arg.off < 0) =>
        /\ last.res.err = "NegativeOffset"
        /\ last.res.n = 0
        /\ last.res.buf = last.arg.b
        /\ f.data = last.pre.data

\* C7 as amended: for every offset o < 0, ReadAt and WriteAt move zero bytes
\* (neither the caller's buffer nor the region changes) and fail: with
\* NegativeOffset on an open handle that passes the earlier checks (any open
\* handle for ReadAt, an open writable one for WriteAt), with Closed on a closed
\* handle, and WriteAt with ReadOnly on an open read-only handle.
C7_NegativeOffset ==
    (InCall /\ last.op \in {"ReadAt", "WriteAt"} /\ last.arg.off < 0) =>
        /\ last.res.n = 0
        /\ last.res.buf = last.arg.b
        /\ f = last.pre
        /\ sys = last.presys
        /\ last.res.err =
              IF last.pre.closed THEN "Closed"
              ELSE IF last.op = "WriteAt" /\ ~last.pre.writable THEN "ReadOnly"
              ELSE "NegativeOffset"

\* a WriteAt of a full buffer at the most negative offset of an open writable handle
C7_Witness ==
    /\ InCall
    /\ last.op = "WriteAt"
    /\ OpenWritable(last.pre)
    /\ Len(last.pre.data) > 0
    /\ last.arg.off = MinInt
    /\ Len(last.arg.b) = MaxBuf
    /\ last.res.err = "NegativeOffset"

\* C8: on a writable open handle, whenever WriteAt(b, o) returns success, a
\* following ReadAt of len(b) bytes at o returns exactly b with no error.
C8_RoundTrip ==
    (InCall /\ last.op = "WriteAt" /\ last.res.err = "nil") =>
        \A rb \in RBufs :
            Len(rb) = Len(last.arg.b) =>
                LET r == ReadAt(f, rb, last.arg.off)
                IN  r.buf = last.arg.b /\ r.err = "nil" /\ r.n = Len(last.arg.b)

\* a successful WriteAt of a full buffer that changed the region, away from the cursor
C8_Witness ==
    /\ InCall
    /\ last.op = "WriteAt"
    /\ last.res.err = "nil"
    /\ Len(last.arg.b) = MaxBuf
    /\ f.data # last.pre.data
    /\ last.pre.offset # last.arg.off

-----------------------------------------------------------------------------
(* The cursor methods against the positional ones.                         *)

\* C9: Read(buf) on an open handle returns the count, bytes and error that
\* ReadAt(buf, cursor) returns, and advances the cursor by the count; with the
\* cursor >= Len() it returns 0 bytes with io.EOF and leaves the cursor unchanged.
C9_ReadAsReadAt ==
    (InCall /\ last.op = "Read" /\ ~last.pre.closed) =>
        LET ra == ReadAt(last.pre, last.arg.b, last.pre.offset)
        IN  /\ last.res.n = ra.n
            /\ last.res.buf = ra.buf
            /\ last.res.err = ra.err
            /\ f.offset = last.pre.offset + last.res.n
            /\ f.data = last.pre.data
            /\ last.pre.offset >= Len(last.pre.data) =>
                  last.res.n = 0 /\ last.res.err = "EOF" /\ f = last.pre

\* a short Read from a cursor inside the region
C9_Witness ==
    /\ InCall
    /\ last.op = "Read"
    /\ ~last.pre.closed
    /\ last.pre.offset > 0
    /\ last.res.n > 0
    /\ last.res.n < Len(last.arg.b)
    /\ f.offset = Len(f.data)

\* C10: Write(buf) on an open writable handle returns the count and error that
\* WriteAt(buf, cursor) returns and stores the same bytes; it advances the cursor
\* by the count written: on a partial fit it writes the fitting prefix, advances
\* by that amount and reports OutOfBounds; with the cursor >= Len() it writes
\* nothing, leaves the cursor unchanged and reports OutOfBounds.  WriteString(s)
\* behaves as Write of the bytes of s.
C10_WriteAsWriteAt ==
    (InCall /\ last.op \in {"Write", "WriteString"} /\ OpenWritable(last.pre)) =>
        LET wa == WriteAt(last.pre, last.arg.b, last.pre.offset)
            c == last.pre.offset
            L == Len(last.pre.data)
        IN  /\ last.res.n = wa.n
            /\ last.res.err = wa.err
            /\ f.data = wa.f.data
            /\ f.offset = c + last.res.n
            /\ (c < L /\ Len(last.arg.b) > L - c) =>
                  /\ last.res.n = L - c
                  /\ last.res.err = "WriteOutOfBounds"
                  /\ SubSeq(f.data, c + 1, L) = SubSeq(last.arg.b, 1, L - c)
            /\ c >= L =>
                  last.res.n = 0 /\ last.res.err = "WriteOutOfBounds" /\ f = last.pre

\* a WriteString that fits only in part
C10_Witness ==
    /\ InCall
    /\ last.op = "WriteString"
    /\ OpenWritable(last.pre)
    /\ last.res.n > 0
    /\ last.res.n < Len(last.arg.b)
    /\ last.res.err = "WriteOutOfBounds"
    /\ f.offset = Len(f.data)

-----------------------------------------------------------------------------
(* C11: Seek(delta, whence) on an open handle sets the cursor to base +    *)
(* delta and returns it, with base 0 for SeekStart, the cursor for         *)
(* SeekCurrent and Len() for SeekEnd; any other whence fails               *)
(* InvalidWhence, a negative sum fails NegativeOffset, and a sum at or     *)
(* beyond Len() is accepted.  The sum is the int64 sum the code computes:  *)
(* an exact sum above the int64 range is negative as an int64 and fails    *)
(* NegativeOffset.  Stated for the call just made and for every Seek the   *)
(* open handle could be given.                                             *)

SeekBase(h, whence) ==
    IF whence = SeekStart THEN 0
    ELSE IF whence = SeekCurrent THEN h.offset
    ELSE Len(h.data)

SeekAsStated(h, delta, whence, r) ==
    LET sum == SeekBase(h, whence) + delta
    IN  IF whence \notin {SeekStart, SeekCurrent, SeekEnd}
        THEN r.err = "InvalidWhence" /\ r.f = h
        ELSE IF sum < 0 \/ sum > MaxInt
        THEN r.err = "NegativeOffset" /\ r.f = h
        ELSE /\ r.err = "nil"
             /\ r.n = sum
             /\ r.f = [h EXCEPT !.offset = sum]

C11_Seek ==
    /\ (InCall /\ last.op = "Seek" /\ ~last.pre.closed) =>
          /\ SeekAsStated(last.pre, last.arg.offset, last.arg.whence, last.res)
          /\ f = last.res.f
    /\ (~InCall /\ ~f.closed) =>
          \A delta \in Int64, whence \in Whences :
              SeekAsStated(f, delta, whence, Seek(f, delta, whence))

\* a relative Seek from a non-zero cursor that lands beyond the end of a
\* non-empty region
C11_Witness ==
    /\ InCall
    /\ last.op = "Seek"
    /\ ~last.pre.closed
    /\ last.arg.whence = SeekCurrent
    /\ last.pre.offset > 0
    /\ last.arg.offset > 0
    /\ Len(f.data) > 0
    /\ last.res.err = "nil"
    /\ last.res.n = last.pre.offset + last.arg.offset
    /\ f.offset > Len(f.data)

-----------------------------------------------------------------------------
(* The cursor.                                                             *)

CursorReset(h) == [h EXCEPT !.offset = 0]

\* two results that differ at most in the cursor of the handle they leave
SameButCursor(r, r0) ==
    [r EXCEPT !.f = CursorReset(r.f)] = [r0 EXCEPT !.f = CursorReset(r0.f)]

\* the call just made returned what it would have returned with the cursor at 0
CursorBlind ==
    LET z == CursorReset(last.pre)
        a == last.arg
    IN  CASE last.op = "Len" -> SameButCursor(last.res, Ret(z, LenOf(z), "nil", <<>>))
          [] last.op = "Bytes" ->
                SameButCursor(last.res, Ret(z, Len(BytesOf(z)), "nil", BytesOf(z)))
          [] last.op = "ReadAt" -> SameButCursor(last.res, ReadAt(z, a.b, a.off))
          [] last.op = "WriteAt" -> SameButCursor(last.res, WriteAt(z, a.b, a.off))
          [] last.op = "WriteTo" -> SameButCursor(last.res, WriteTo(z, a.w))
          [] last.op = "Stat" ->
                SameButCursor(last.res, Stat(z, last.presys, a.fail) @@ [sys |-> last.presys])
          [] last.op = "Sync" /\ goos = "unix" ->
                SameButCursor(last.res, SyncUnix(z, last.presys, a.fail))
          [] last.op = "Sync" /\ goos = "other" ->
                SameButCursor(last.res, SyncOther(z, last.presys, a.fail, a.k))
          [] last.op = "Close" /\ goos = "unix" ->
                SameButCursor(last.res, CloseUnix(z, last.presys, a.fail))
          [] last.op = "Close" /\ goos = "other" ->
                SameButCursor(last.res, CloseOther(z, last.presys, a.fail, a.k))
          [] OTHER -> TRUE

\* the cursor moved in the call just made
CursorMoved == InCall /\ f.offset # last.pre.offset

(* C12 as stated: the cursor starts at 0 and is never negative; a call     *)
(* that leaves it at a value >= Len() on an open handle is a Seek; and the *)
(* cursor affects only Read, Write and ReadFrom.  Reading or writing up to *)
(* the end of the region leaves the cursor at Len() without any Seek.      *)
C12_OnlySeekReachesEnd ==
    /\ f.offset >= 0
    /\ \A os \in Builds, d \in Regions, w \in BOOLEAN : NewHandle(os, d, w).offset = 0
    /\ (CursorMoved /\ ~f.closed /\ f.offset >= Len(f.data)) => last.op = "Seek"
    /\ InCall => CursorBlind

(* C12: the cursor starts at 0 and is never negative in any reachable      *)
(* state; on an open handle a call that leaves it at a value greater than  *)
(* Len() is a Seek (Read, Write, WriteString and ReadFrom stop at Len());  *)
(* and Len, Bytes, ReadAt, WriteAt, WriteTo, Stat, Sync and Close return   *)
(* and do the same whatever the cursor is.                                 *)
C12_Cursor ==
    /\ f.offset >= 0
    /\ \A os \in Builds, d \in Regions, w \in BOOLEAN : NewHandle(os, d, w).offset = 0
    /\ (CursorMoved /\ ~f.closed /\ f.offset > Len(f.data)) => last.op = "Seek"
    /\ (CursorMoved /\ last.op # "Seek") =>
          /\ last.op \in {"Read", "Write", "WriteString", "ReadFrom"}
          /\ f.offset > last.pre.offset
          /\ f.offset <= Len(f.data)
    /\ InCall => CursorBlind

\* a WriteAt that stores bytes while the cursor is beyond the end; the
\* cursor got there through a Seek
C12_Witness ==
    /\ InCall
    /\ last.op = "WriteAt"
    /\ last.pre.offset > Len(last.pre.data)
    /\ last.res.n > 0
    /\ f.data # last.pre.data
    /\ f.offset = last.pre.offset

(* C13: on an open handle, for every n with 0 <= n <= Len(), Seek(-n,      *)
(* SeekEnd) succeeds and a Read into an n-byte buffer that follows it      *)
(* returns the last n bytes of the region; after Seek(0, SeekEnd) a Read   *)
(* into a non-empty buffer returns 0 bytes and io.EOF and leaves the       *)
(* buffer alone.  Stated in the state a Seek(-n, SeekEnd) has just left,   *)
(* for every buffer the Read could be given.                               *)
C13_SeekEndThenRead ==
    (/\ InCall
     /\ last.op = "Seek"
     /\ ~last.pre.closed
     /\ last.arg.whence = SeekEnd
     /\ last.arg.offset <= 0
     /\ -last.arg.offset <= Len(last.pre.data)) =>
        LET n == -last.arg.offset
            L == Len(f.data)
        IN  /\ last.res.err = "nil"
            /\ f.data = last.pre.data
            /\ \A b \in RBufs :
                  LET rd == Read(f, b)
                  IN  /\ Len(b) = n =>
                            /\ rd.n = n
                            /\ rd.buf = SubSeq(f.data, L - n + 1, L)
                            /\ n > 0 => rd.err = "nil"
                            /\ rd.f.offset = L
                      /\ (n = 0 /\ Len(b) > 0) =>
                            /\ rd.n = 0
                            /\ rd.err = "EOF"
                            /\ rd.buf = b

\* a Seek back from the end over a whole non-empty region, made with the
\* cursor somewhere else
C13_Witness ==
    /\ InCall
    /\ last.op = "Seek"
    /\ ~last.pre.closed
    /\ last.arg.whence = SeekEnd
    /\ last.arg.offset < 0
    /\ -last.arg.offset = Len(f.data)
    /\ last.pre.offset > 0
    /\ f.offset = 0
    /\ \E b \in RBufs : Len(b) = Len(f.data) /\ Read(f, b).buf = f.data

-----------------------------------------------------------------------------
(* ReadFrom and WriteTo.                                                   *)

\* what C14 states of a ReadFrom on the open writable handle h from a reader
\* that holds L bytes and does not fail, given the result r of the call
ReadFromAsStated(h, rd, r) ==
    LET c == h.offset
        L == Len(rd.src)
        room == Max(Len(h.data) - c, 0)
        k == Min(L, room)
    IN  /\ r.n = k
        /\ r.f.offset = c + k
        /\ Len(r.f.data) = Len(h.data)
        /\ \A i \in 1..Len(h.data) :
              r.f.data[i] = IF i - c \in 1..k THEN rd.src[i - c] ELSE h.data[i]
        /\ r.err = IF L > room THEN "WriteOutOfBounds" ELSE "nil"

(* C14: on an open writable handle with cursor c, ReadFrom from a source   *)
(* holding L bytes stores the first min(L, max(Len()-c, 0)) source bytes   *)
(* at c, advances the cursor by that count and returns it, with            *)
(* WriteOutOfBounds exactly when L exceeds the room left and nil           *)
(* otherwise.  A source whose Read returns its last byte together with     *)
(* io.EOF and holds one byte more than the room left gets nil.             *)
C14_ReadFrom ==
    (/\ InCall
     /\ last.op = "ReadFrom"
     /\ OpenWritable(last.pre)
     /\ ~last.arg.r.fails) =>
        /\ ReadFromAsStated(last.pre, last.arg.r, last.res)
        /\ f = last.res.f

(* C15: WriteTo on an open handle hands the whole region, bytes 0 ..       *)
(* Len(), to the writer in one Write call, whatever the cursor is; it      *)
(* returns the count the writer accepted and the writer's error, which is  *)
(* non-nil with a partial count when the writer stops early; the cursor    *)
(* and the region (and the file behind it) are unchanged.                  *)
C15_WriteTo ==
    (InCall /\ last.op = "WriteTo" /\ ~last.pre.closed) =>
        LET L == Len(last.pre.data)
            sink == WrWrite(last.arg.w, last.pre.data)
        IN  /\ last.res.writes = 1
            /\ last.res.offered = last.pre.data
            /\ last.res.idx = 0..(L - 1)
            /\ last.res.n = sink.n
            /\ last.res.err = sink.err
            /\ last.res.buf = SubSeq(last.pre.data, 1, last.res.n)
            /\ last.arg.w.accept < L =>
                  last.res.n = last.arg.w.accept /\ last.res.err = "sink"
            /\ last.arg.w.accept >= L =>
                  last.res.n = L /\ last.res.err = "nil"
            /\ f = last.pre
            /\ sys = last.presys

\* a WriteTo with the cursor inside the region to a writer that takes some
\* bytes and then fails
C15_Witness ==
    /\ InCall
    /\ last.op = "WriteTo"
    /\ ~last.pre.closed
    /\ last.pre.offset > 0
    /\ last.pre.offset < Len(last.pre.data)
    /\ last.res.n > 0
    /\ last.res.n < Len(last.pre.data)
    /\ last.res.err = "sink"
    /\ f.offset = last.pre.offset

-----------------------------------------------------------------------------
(* Opening.                                                                *)

\* an OpenFile or Open call has just returned a handle
Opened == InCall /\ last.op \in {"OpenFile", "Open"} /\ last.res.err = "nil"

ResizeAsked ==
    /\ last.arg.size > 0
    /\ \/ last.arg.flag.trunc
       \/ last.arg.flag.create /\ Len(last.presys.file) = 0

-----------------------------------------------------------------------------
(* Read-only handles.                                                      *)

WriteMethods == {"Write", "WriteString", "WriteAt", "ReadFrom"}

\* the native calls a method made
CallsMade == {last.res.calls[i] : i \in 1..Len(last.res.calls)}

\* a method was just called on a handle that is not writable
OnReadOnly == InCall /\ ~last.pre.writable

(* C16 as stated: on a read-only handle every Write, WriteString, WriteAt  *)
(* and ReadFrom fails with ReadOnly and writes zero bytes, and after any   *)
(* sequence of operations the region's bytes equal the bytes at open.      *)
(* After Close these calls fail with Closed and the region is gone.        *)
C16_AlwaysReadOnly ==
    /\ (OnReadOnly /\ last.op \in WriteMethods) =>
          last.res.err = "ReadOnly" /\ last.res.n = 0
    /\ OnReadOnly => f.data = last.pre.data

(* C16: a handle opened without O_RDWR and O_WRONLY does not carry the     *)
(* writable flag and no call sets it; while such a handle is open every    *)
(* Write, WriteString, WriteAt and ReadFrom fails with ReadOnly and moves  *)
(* zero bytes (after Close they fail with Closed, still moving none); no   *)
(* call changes the bytes of the region before Close releases it, no call  *)
(* changes the bytes of the file, and neither Sync nor Close seeks in,     *)
(* writes to or flushes the file.                                          *)
C16_ReadOnly ==
    /\ (~InCall /\ ~f.closed /\ ~f.writable) =>
          \A flag \in OpenFlags, size \in OpenSizes, fail \in OpenFails :
              LET res == OpenFile(goos, [file |-> sys.file, exists |-> TRUE],
                                  flag, size, fail)
              IN  (res.err = "nil" /\ ~flag.rdwr /\ ~flag.wronly) => ~res.f.writable
    /\ InCall => f.writable = last.pre.writable
    /\ (OnReadOnly /\ last.op \in WriteMethods) =>
          /\ last.res.err = IF last.pre.closed THEN "Closed" ELSE "ReadOnly"
          /\ last.res.n = 0
          /\ last.res.idx = {}
          /\ f = last.pre
    /\ OnReadOnly =>
          /\ f.data = last.pre.data \/ (last.op = "Close" /\ f.closed /\ f.data = <<>>)
          /\ sys.file = last.presys.file
    /\ (OnReadOnly /\ last.op \in {"Sync", "Close"}) =>
          CallsMade \cap {"seek", "write", "sync", "msync"} = {}

\* a Close of an open read-only handle of the fallback build, whose region
\* is not empty: the retained file is closed without a write
C16_Witness ==
    /\ OnReadOnly
    /\ last.op = "Close"
    /\ ~last.pre.closed
    /\ goos = "other"
    /\ Len(last.pre.data) > 0
    /\ "close" \in CallsMade
    /\ sys.file = last.presys.file

-----------------------------------------------------------------------------
(* Concurrent calls.                                                       *)

AllDone == \A p \in Procs : procs[p].pc = "done"
Returned(p) == procs[p].pc = "done"
\* the other goroutine
Peer(p) == CHOOSE q \in Procs : q # p

\* the region indices a ReadAt or WriteAt call addresses
RangeOf(c) == c.off..(c.off + Len(c.b) - 1)
\* the call addresses bytes of the region only
InRegion(c) == c.off + Len(c.b) <= Len(last.pre.data)
\* the buffer a ReadAt made afterwards reads k bytes into
CheckBuf(k) == [i \in 1..k |-> Fill]

\* both goroutines WriteAt, to disjoint ranges inside a writable region
DisjointWrites ==
    /\ last.pre.writable
    /\ \A p \in Procs :
          /\ procs[p].call.op = "WriteAt"
          /\ InRegion(procs[p].call)
    /\ RangeOf(procs["g1"].call) \cap RangeOf(procs["g2"].call) = {}

\* p reads a range inside the region that its peer does not write
ReadsUnwritten(p) ==
    /\ procs[p].call.op = "ReadAt"
    /\ InRegion(procs[p].call)
    /\ procs[Peer(p)].call.op = "WriteAt" =>
          \/ ~last.pre.writable
          \/ RangeOf(procs[p].call) \cap RangeOf(procs[Peer(p)].call) = {}

(* C17: when two goroutines call WriteAt at the same time on disjoint      *)
(* ranges of a writable handle, in every interleaving each call returns    *)
(* its full count and no error, and once both have returned a ReadAt of    *)
(* each range returns exactly the payload written to it and every other    *)
(* byte is as before; a ReadAt running at the same time as a WriteAt, of a *)
(* range that is not being written, returns the bytes of that range.       *)
C17_DisjointWriteAt ==
    /\ DisjointWrites =>
          /\ \A p \in Procs :
                Returned(p) =>
                    /\ procs[p].err = "nil"
                    /\ procs[p].n = Len(procs[p].call.b)
                    /\ ~procs[p].torn
                    /\ LET c == procs[p].call
                           rd == ReadAt(f, CheckBuf(Len(c.b)), c.off)
                       IN  rd.buf = c.b /\ rd.err = "nil"
          /\ AllDone =>
                /\ \A i \in 1..Len(f.data) :
                      (i - 1) \notin RangeOf(procs["g1"].call) \cup RangeOf(procs["g2"].call)
                          => f.data[i] = last.pre.data[i]
                /\ Len(f.data) = Len(last.pre.data)
                /\ f.offset = last.pre.offset
    /\ \A p \in Procs :
          (ReadsUnwritten(p) /\ Returned(p)) =>
              LET c == procs[p].call
              IN  /\ procs[p].err = "nil"
                  /\ procs[p].n = Len(c.b)
                  /\ procs[p].buf = SubSeq(last.pre.data, c.off + 1, c.off + Len(c.b))
                  /\ procs[p].buf = SubSeq(f.data, c.off + 1, c.off + Len(c.b))
                  /\ ~procs[p].torn

\* both WriteAt calls have returned, one of them of more than one byte, and
\* each changed a byte of the region
C17_Witness ==
    /\ DisjointWrites
    /\ AllDone
    /\ Len(procs["g2"].call.b) > 1
    /\ \A p \in Procs :
          \E j \in RangeOf(procs[p].call) : f.data[j + 1] # last.pre.data[j + 1]

\* what goroutine p got back
Out(p) == [n |-> procs[p].n, err |-> procs[p].err, buf |-> procs[p].buf]

\* the results and the final state are those of a's call followed by b's call
SeqOrder(a, b) ==
    LET r1 == Run(last.pre, last.presys, goos, procs[a].call)
        r2 == Run(r1.f, r1.sys, goos, procs[b].call)
    IN  /\ Out(a) = [n |-> r1.n, err |-> r1.err, buf |-> r1.buf]
        /\ Out(b) = [n |-> r2.n, err |-> r2.err, buf |-> r2.buf]
        /\ f = r2.f
        /\ sys = r2.sys

\* p is between taking f.mu and releasing it
InMethod(p) == procs[p].pc \in {"check", "copy", "unlock"}

(* C18: Read, Write, Seek and ReadFrom calls made at the same time on one  *)
(* handle are serialized: in every interleaving the counts, bytes and      *)
(* errors returned, the region, the file and the final cursor are those of *)
(* the two calls made one after the other in some order; two Reads never   *)
(* return the same cursor range and leave the cursor advanced by the sum   *)
(* of their counts; and no Len() is inside its body while one of these     *)
(* calls is inside its own.                                                *)
C18_Serialized ==
    /\ AllDone => (SeqOrder("g1", "g2") \/ SeqOrder("g2", "g1"))
    /\ (AllDone /\ \A p \in Procs : procs[p].call.op = "Read") =>
          /\ procs["g1"].idx \cap procs["g2"].idx = {}
          /\ f.offset = last.pre.offset + procs["g1"].n + procs["g2"].n
    /\ \A p \in Procs :
          (InMethod(p) /\ procs[p].call.op \in CursorOps) =>
              /\ ~InMethod(Peer(p))
              /\ mu = [w |-> {p}, r |-> {}]
    /\ \A p \in Procs : ~procs[p].torn

\* two Reads have returned, each with bytes, the second from where the first
\* one stopped
C18_Witness ==
    /\ AllDone
    /\ \A p \in Procs : procs[p].call.op = "Read" /\ procs[p].n > 0
    /\ procs["g2"].from = 0
    /\ procs["g1"].from = procs["g2"].n
    /\ f.offset = procs["g1"].n + procs["g2"].n

\* the calls C19 names beside Close
RacingOps == {"Read", "Write", "Seek", "ReadAt", "WriteAt", "ReadFrom", "WriteTo", "Sync"}

\* what p's call returns when it is made alone before the Close
AloneBefore(p) ==
    LET r == Run(last.pre, last.presys, goos, procs[p].call)
    IN  [n |-> r.n, err |-> r.err, buf |-> r.buf]

\* what the caller's buffer is when nothing was copied
Untouched(p) ==
    IF procs[p].call.op \in {"Read", "ReadAt", "Write", "WriteAt"}
    THEN procs[p].call.b ELSE <<>>

(* C19: in every interleaving of a Close with a Read, Write, Seek, ReadAt, *)
(* WriteAt, ReadFrom, WriteTo or Sync on the same handle, the other call   *)
(* either runs entirely before Close releases the region, returning what   *)
(* it returns when made alone before the Close, or fails with Closed       *)
(* having moved nothing; Close never runs its body while the other call is *)
(* inside its own, no call is inside its copy once the handle is closed,   *)
(* and none touches the region after it is gone.                           *)
C19_NoTornState ==
    /\ \A p \in Procs : ~procs[p].torn
    /\ AllDone => (SeqOrder("g1", "g2") \/ SeqOrder("g2", "g1"))
    /\ (Returned("g2") /\ procs["g2"].call.op \in RacingOps) =>
          \/ Out("g2") = AloneBefore("g2")
          \/ /\ Out("g2") = [n |-> 0, err |-> "Closed", buf |-> Untouched("g2")]
             /\ f.closed
    /\ InMethod("g1") => (~InMethod("g2") /\ mu = [w |-> {"g1"}, r |-> {}])
    /\ f.closed =>
          /\ procs["g2"].pc # "copy"
          /\ f.data = <<>>
          /\ ~sys.mapped
          /\ (InMethod("g2") /\ procs["g2"].call.op \in RacingOps) =>
                (procs["g2"].pc = "check" \/ procs["g2"].err = "Closed")

\* Close is waiting for f.mu while a ReadAt or WriteAt is in the middle of its copy
C19_Witness ==
    /\ procs["g1"].call.op = "Close"
    /\ procs["g1"].pc = "lock"
    /\ procs["g2"].call.op \in {"ReadAt", "WriteAt"}
    /\ procs["g2"].pc = "copy"
    /\ procs["g2"].i > 0
    /\ ~f.closed

-----------------------------------------------------------------------------
(* C21: OpenFile with the append flag fails whatever the other flags, the  *)
(* size and the state of the path are: it returns the O_APPEND error and   *)
(* no handle, and it has made no file operation, so that a missing path is *)
(* still missing and an existing file has the bytes it had.                *)
C21_AppendRejected ==
    (InCall /\ last.op = "OpenFile" /\ last.arg.flag.append) =>
        /\ last.res.err = "append"
        /\ f = NoHandle
        /\ last.res.calls = <<>>
        /\ sys = last.presys

\* O_RDWR|O_CREATE|O_APPEND with a positive size on a missing path: the
\* call has failed and the path is still missing
C21_Witness ==
    /\ InCall
    /\ last.op = "OpenFile"
    /\ last.arg.flag.append
    /\ last.arg.flag.create
    /\ last.arg.flag.rdwr
    /\ last.arg.size > 0
    /\ last.arg.fail = "none"
    /\ ~last.presys.exists
    /\ ~sys.exists
    /\ last.res.err = "append"

(* C22: OpenFile with the create flag on a missing path returns a handle   *)
(* only when the requested size is above zero; with a size of zero or      *)
(* below the call returns no handle.  The code returns an empty handle and *)
(* a nil error for such a size, having created an empty file.              *)
C22_CreateNeedsSize ==
    (InCall /\ last.op = "OpenFile" /\ last.arg.flag.create /\ ~last.presys.exists) =>
        /\ last.res.err = "nil" => last.arg.size > 0
        /\ last.arg.size <= 0 => f = NoHandle

(* C23: for a file that exists and is opened without the truncate flag the *)
(* size argument is ignored: the handle has the length the file had before *)
(* the call and the file keeps its bytes, whatever the other flags and the *)
(* size of the file.  The code grows an existing empty file to the         *)
(* requested size when the create flag is given.                           *)
C23_SizeIgnored ==
    (Opened /\ last.presys.exists /\ ~last.arg.flag.trunc) =>
        /\ LenOf(f) = Len(last.presys.file)
        /\ sys.file = last.presys.file

-----------------------------------------------------------------------------
(* The handle of an empty file.                                            *)

\* the names of the file operations the call just returned has made
CallSet == {last.res.calls[i] : i \in 1..Len(last.res.calls)}

\* the call in progress was made on an open handle whose opening found, or
\* left, a file of zero bytes
OnEmpty ==
    /\ InCall
    /\ last.op \notin {"OpenFile", "Open"}
    /\ last.presys.size = 0
    /\ ~last.pre.closed

\* what an opening with a resulting size of zero returns, and what Len, Read,
\* Write, WriteString and Sync do on the handle
EmptyCommon ==
    /\ (Opened /\ Len(sys.file) = 0) =>
          /\ f = NewHandle(goos, <<>>, last.arg.flag.rdwr \/ last.arg.flag.wronly)
          /\ "map" \notin CallSet
          /\ ~sys.mapped
          /\ sys.size = 0
    /\ OnEmpty =>
          /\ last.op \in {"Len", "Bytes"} => last.res.n = 0
          /\ last.op = "Read" => last.res.n = 0 /\ last.res.err = "EOF"
          /\ (last.op \in {"Write", "WriteString"} /\ last.pre.writable) =>
                last.res.n = 0 /\ last.res.err = "WriteOutOfBounds"
          /\ last.op = "Sync" =>
                /\ last.res.err = "nil"
                /\ last.res.calls = <<>>
                /\ sys = last.presys
                /\ f = last.pre
          /\ last.op = "Close" =>
                /\ f.closed
                /\ "munmap" \notin CallSet
                /\ sys.munmaps = 0

(* C24 as stated: when the resulting size is zero the open returns a       *)
(* handle with an empty region and makes no mapping call; on that handle   *)
(* Len() is 0, every Read and ReadAt returns 0 bytes with EOF, every Write *)
(* and WriteAt on a writable one returns 0 bytes with WriteOutOfBounds,    *)
(* Sync does nothing, and Close returns nil without an unmap call.         *)
C24_EmptyAsStated ==
    /\ EmptyCommon
    /\ OnEmpty =>
          /\ last.op = "ReadAt" => last.res.n = 0 /\ last.res.err = "EOF"
          /\ (last.op = "WriteAt" /\ last.pre.writable) =>
                last.res.n = 0 /\ last.res.err = "WriteOutOfBounds"
          /\ last.op = "Close" => last.res.err = "nil"

(* C24: when the resulting size is zero the open returns a handle with an  *)
(* empty region and makes no mapping call; on that handle Len() is 0, Read *)
(* returns 0 bytes with EOF and so does ReadAt at an offset that is not    *)
(* negative, Write on a writable one returns 0 bytes with WriteOutOfBounds *)
(* and so does WriteAt at an offset that is not negative, ReadAt and       *)
(* WriteAt at a negative offset return 0 bytes with NegativeOffset, Sync   *)
(* does nothing, and Close makes no unmap call, marks the handle closed    *)
(* and returns nil unless, in the fallback build, closing the retained     *)
(* file fails.                                                             *)
C24_EmptyHandle ==
    /\ EmptyCommon
    /\ OnEmpty =>
          /\ last.op = "ReadAt" =>
                /\ last.res.n = 0
                /\ last.res.err = IF last.arg.off < 0 THEN "NegativeOffset" ELSE "EOF"
          /\ (last.op = "WriteAt" /\ last.pre.writable) =>
                /\ last.res.n = 0
                /\ last.res.err = IF last.arg.off < 0 THEN "NegativeOffset"
                                  ELSE "WriteOutOfBounds"
          /\ last.op = "Close" =>
                last.res.err = IF goos = "other" /\ last.arg.fail = "close"
                               THEN "os" ELSE "nil"

\* the Close of an open writable handle of an empty file in the POSIX build
C24_Witness ==
    /\ OnEmpty
    /\ last.op = "Close"
    /\ last.pre.writable
    /\ goos = "unix"
    /\ last.res.err = "nil"
    /\ f.closed
    /\ sys.munmaps = 0

-----------------------------------------------------------------------------
(* Sync and Close against the file.                                        *)

(* C25: Sync on an open handle that is read-only, or whose region is       *)
(* empty, returns nil and does nothing: it makes no msync, seek, write or  *)
(* file sync call, the file holds the bytes it held and the handle is as   *)
(* it was, in both builds and wherever the calls before it left the        *)
(* handle.                                                                 *)
C25_SyncNoOp ==
    (/\ InCall
     /\ last.op = "Sync"
     /\ ~last.pre.closed
     /\ (~last.pre.writable \/ Len(last.pre.data) = 0)) =>
        /\ last.res.err = "nil"
        /\ last.res.calls = <<>>
        /\ sys = last.presys
        /\ f = last.pre

\* Sync on an open read-only handle over two bytes in the fallback build,
\* with the cursor moved by an earlier call
C25_Witness ==
    /\ InCall
    /\ last.op = "Sync"
    /\ goos = "other"
    /\ ~last.pre.closed
    /\ ~last.pre.writable
    /\ Len(last.pre.data) = MaxLen
    /\ last.pre.offset > 0
    /\ last.res.err = "nil"

\* the handle Open returns for the path of the handle in its present state
Reopened == Open(goos, [file |-> sys.file, exists |-> TRUE], "none")

(* C26: in both builds, when Sync on an open writable handle has returned  *)
(* nil, opening the same path read-only succeeds and returns a handle      *)
(* whose region has the length and the bytes the writing handle's region   *)
(* has at that Sync, so that ReadAt on the new handle returns what ReadAt  *)
(* on the writing handle returns; the same holds of the region the handle  *)
(* had when a Close of it returned nil.                                    *)
C26_Durable ==
    /\ (/\ InCall
        /\ last.op = "Sync"
        /\ last.res.err = "nil"
        /\ last.pre.writable) =>
          /\ Reopened.err = "nil"
          /\ Reopened.f.data = f.data
          /\ ~Reopened.f.writable
          /\ \A b \in RBufs, off \in 0..MaxLen :
                LET new == ReadAt(Reopened.f, b, off)
                    old == ReadAt(f, b, off)
                IN  new.n = old.n /\ new.err = old.err /\ new.buf = old.buf
    /\ (/\ InCall
        /\ last.op = "Close"
        /\ last.res.err = "nil"
        /\ last.pre.writable
        /\ ~last.pre.closed) =>
          /\ Reopened.err = "nil"
          /\ Reopened.f.data = last.pre.data

\* a Sync in the fallback build that returned nil and brought to the file a
\* full region whose bytes the file did not hold
C26_Witness ==
    /\ InCall
    /\ last.op = "Sync"
    /\ goos = "other"
    /\ last.res.err = "nil"
    /\ last.pre.writable
    /\ Len(last.pre.data) = MaxLen
    /\ last.presys.file # last.pre.data
    /\ "write" \in CallSet
    /\ Reopened.f.data = f.data

\* the Close in progress is the first one of a fallback handle and its
\* write-back (the seek to the start or the write of the buffer) fails
WritebackFails ==
    /\ InCall
    /\ last.op = "Close"
    /\ goos = "other"
    /\ ~last.pre.closed
    /\ last.pre.writable
    /\ Len(last.pre.data) > 0
    /\ last.arg.fail \in {"seek", "write"}

(* C27: in the fallback build a Close whose write-back fails returns that  *)
(* error, and still marks the handle closed, drops the region and closes   *)
(* the retained file; every Close of a handle that is already closed       *)
(* returns nil and makes no seek, write or close call, so the failure is   *)
(* reported by the first Close only.                                       *)
C27_WritebackOnce ==
    /\ WritebackFails =>
          /\ last.res.err = "os"
          /\ f.closed
          /\ f.data = <<>>
          /\ f.platform = "nil"
          /\ ~sys.fhOpen
          /\ "close" \in CallSet
    /\ (InCall /\ last.op = "Close" /\ goos = "other" /\ last.pre.closed) =>
          /\ last.res.err = "nil"
          /\ last.res.calls = <<>>
          /\ sys = last.presys
          /\ f = last.pre

\* a first Close whose file.Write fails after one byte of two
C27_Witness ==
    /\ WritebackFails
    /\ last.arg.fail = "write"
    /\ last.arg.k = 1
    /\ last.res.err = "os"
    /\ f.closed
    /\ ~sys.fhOpen

-----------------------------------------------------------------------------
(* Releasing the mapping.                                                  *)

(* C28: whatever the order in which the Close calls of several goroutines  *)
(* and the finalizer run, syscall.Munmap is called at most once for a      *)
(* handle; a Close leaves no finalizer set, so the finalizer runs only on  *)
(* a handle that no Close call has closed, and there has been no unmap     *)
(* before it runs.                                                         *)
C28_ReleasedOnce ==
    /\ sys.munmaps <= 1
    /\ f.closed => ~sys.finalizer
    /\ sys.munmaps = 1 => f.closed
    /\ last.op = "finalizer" =>
          /\ ~last.pre.closed
          /\ last.presys.munmaps = 0
          /\ \A p \in Procs : procs[p].call.op # "Close"

\* both goroutines have called Close on a mapped handle: one unmap, and no
\* finalizer left to run
C28_Witness ==
    /\ AllDone
    /\ \A p \in Procs : procs[p].call.op = "Close"
    /\ goos = "unix"
    /\ last.presys.mapped
    /\ sys.munmaps = 1
    /\ ~sys.finalizer

-----------------------------------------------------------------------------
(* Counts returned with an error.                                          *)

\* the region d with the first n bytes of src stored from index c (0-based) on
StoredAt(d, c, src, n) ==
    [i \in 1..Len(d) |-> IF i - c \in 1..n THEN src[i - c] ELSE d[i]]

\* the buffer b with its first n bytes taken from index c (0-based) of d on
LoadedFrom(b, d, c, n) ==
    [i \in 1..Len(b) |-> IF i <= n THEN d[c + i] ELSE b[i]]

(* C29: when Read, ReadAt, Write, WriteString, WriteAt, ReadFrom or        *)
(* WriteTo returns an error with the count n, n bytes have reached the     *)
(* destination and no more: Read and ReadAt have filled the first n bytes  *)
(* of the buffer from the n region bytes at the cursor or the offset and   *)
(* left the rest of the buffer alone; Write, WriteAt and ReadFrom have     *)
(* stored the first n bytes of the buffer or the source at the cursor or   *)
(* the offset and left every other region byte alone; WriteTo's writer has *)
(* taken the first n bytes of the region.  Read, Write and ReadFrom have   *)
(* advanced the cursor by n, the others have left it.  What the source     *)
(* of ReadFrom has been asked for beyond the n bytes is not stated here.   *)
C29_PartialCount ==
    (/\ InCall
     /\ last.op \in CopyMethods \cup {"ReadFrom", "WriteTo"}
     /\ last.res.err \notin {"nil", "panic"}) =>
        LET pre == last.pre
            c == pre.offset
            n == last.res.n
        IN  /\ n >= 0
            /\ last.op = "Read" =>
                  /\ n <= Len(last.arg.b)
                  /\ last.res.buf = LoadedFrom(last.arg.b, pre.data, c, n)
                  /\ f.data = pre.data
                  /\ f.offset = c + n
            /\ last.op = "ReadAt" =>
                  /\ n <= Len(last.arg.b)
                  /\ last.res.buf = LoadedFrom(last.arg.b, pre.data, last.arg.off, n)
                  /\ f = pre
            /\ last.op \in {"Write", "WriteString"} =>
                  /\ n <= Len(last.arg.b)
                  /\ f.data = StoredAt(pre.data, c, last.arg.b, n)
                  /\ f.offset = c + n
            /\ last.op = "WriteAt" =>
                  /\ n <= Len(last.arg.b)
                  /\ f.data = StoredAt(pre.data, last.arg.off, last.arg.b, n)
                  /\ f.offset = c
            /\ last.op = "ReadFrom" =>
                  /\ n <= Len(last.arg.r.src)
                  /\ f.data = StoredAt(pre.data, c, last.arg.r.src, n)
                  /\ f.offset = c + n
            /\ last.op = "WriteTo" =>
                  /\ n <= Len(pre.data)
                  /\ last.res.buf = SubSeq(pre.data, 1, n)
                  /\ f = pre

\* a Write of two bytes with room for one: one byte stored, WriteOutOfBounds,
\* and the cursor one further
C29_Witness ==
    /\ InCall
    /\ last.op = "Write"
    /\ Len(last.arg.b) = 2
    /\ last.res.n = 1
    /\ last.res.err = "WriteOutOfBounds"
    /\ f.offset = last.pre.offset + 1
    /\ f.data[Len(f.data)] = last.arg.b[1]
    /\ f.data # last.pre.data

-----------------------------------------------------------------------------
(* The cursor and the calls that take an offset.                           *)

\* the methods that have no use for the cursor
OffsetMethods == {"ReadAt", "WriteAt", "WriteTo", "Len", "Bytes", "Sync", "Stat"}

(* C30: ReadAt and WriteAt leave the cursor where it was, whether they     *)
(* move every byte asked for, some of them, or fail; so do WriteTo, Len,   *)
(* Bytes, Sync and Stat.                                                   *)
C30_CursorKept ==
    (InCall /\ last.op \in OffsetMethods) =>
        /\ f.offset = last.pre.offset
        /\ last.res.f.offset = last.pre.offset

\* a WriteAt that stored one byte of two at the last index, with the cursor
\* at 1 before and after
C30_Witness ==
    /\ InCall
    /\ last.op = "WriteAt"
    /\ last.pre.offset = 1
    /\ last.arg.off # 1
    /\ last.res.n = 1
    /\ last.res.err = "WriteOutOfBounds"
    /\ f.data # last.pre.data
    /\ f.offset = 1

-----------------------------------------------------------------------------
(* ReadFrom and its source.                                                *)

(* C31: the count ReadFrom returns is the number of bytes the call has     *)
(* consumed from the source, also when it returns WriteOutOfBounds: the    *)
(* source is left just after the bytes stored in the region.  The code     *)
(* reads one byte more from the source to find out whether data is left,   *)
(* and drops it.                                                           *)
C31_CountIsConsumed ==
    (InCall /\ last.op = "ReadFrom" /\ ~last.res.fault) =>
        last.res.r.pos = last.arg.r.pos + last.res.n

-----------------------------------------------------------------------------
(* ReadFrom against the calls of another goroutine.                        *)

\* g1's ReadFrom has passed its checks of the closed and the writable flag
FromRuns == procs["g1"].err \notin {"Closed", "ReadOnly"}

(* C32: ReadFrom holds f.mu.Lock() from its entry to its return: while it  *)
(* is inside its body, between its source reads included, no Read, Write,  *)
(* Seek, ReadAt, WriteAt, Len, WriteTo, Sync or Close of another goroutine *)
(* is inside its own; when its loop is over the bytes it has stored are    *)
(* the first n source bytes at the n indices from the cursor it found, and *)
(* the cursor is that value plus n, n being the count it returns; and the  *)
(* results and the final state are those of the two calls made one after   *)
(* the other.                                                              *)
C32_ReadFromExclusive ==
    /\ InMethod("g1") =>
          /\ ~InMethod("g2")
          /\ mu = [w |-> {"g1"}, r |-> {}]
    /\ (procs["g1"].pc = "unlock" /\ FromRuns) =>
          LET g == procs["g1"]
          IN  /\ g.idx = Touched(g.from, g.n)
              /\ f.offset = g.from + g.n
              /\ \A j \in g.idx : f.data[j + 1] = g.call.r.src[j - g.from + 1]
    /\ AllDone => (SeqOrder("g1", "g2") \/ SeqOrder("g2", "g1"))
    /\ \A p \in Procs : ~procs[p].torn

\* ReadFrom has stored one byte and has more source reads to make, while a
\* WriteAt of the other goroutine waits for the lock
C32_Witness ==
    /\ procs["g1"].pc = "copy"
    /\ procs["g1"].n = 1
    /\ f.offset < Len(f.data)
    /\ procs["g2"].pc = "lock"
    /\ procs["g2"].call.op = "WriteAt"

-----------------------------------------------------------------------------
(* WriteAt calls on ranges that overlap.                                   *)

\* the values the WriteAt calls have stored at region index j (0-based)
WrittenAt(j) ==
    {procs[p].call.b[j - procs[p].from + 1] :
        p \in {q \in Procs : procs[q].call.op = "WriteAt" /\ j \in procs[q].idx}}

(* C33: WriteAt and ReadAt take f.mu.RLock(), so two WriteAt calls on      *)
(* ranges that overlap may be inside their copies at the same time; when   *)
(* both have returned, every byte that one or both of them wrote holds the *)
(* value that one of the calls wrote to that index, every other byte of    *)
(* the region is as it was, and the length of the region is as it was.     *)
C33_OverlapPerByte ==
    /\ \A os \in Builds : LockMode("WriteAt", os) = "RLock" /\ LockMode("ReadAt", os) = "RLock"
    /\ AllDone =>
          /\ Len(f.data) = Len(last.pre.data)
          /\ \A j \in 0..(Len(f.data) - 1) :
                IF WrittenAt(j) = {} THEN f.data[j + 1] = last.pre.data[j + 1]
                ELSE f.data[j + 1] \in WrittenAt(j)
    /\ \A p \in Procs : ~procs[p].torn

\* two WriteAt calls of two bytes at offset 0 have returned: the first byte
\* is the one g1 wrote, the second the one g2 wrote
C33_Witness ==
    /\ AllDone
    /\ \A p \in Procs :
          /\ procs[p].call.op = "WriteAt"
          /\ procs[p].call.off = 0
          /\ procs[p].n = MaxBuf
    /\ f.data[1] = procs["g1"].call.b[1]
    /\ f.data[2] = procs["g2"].call.b[2]

-----------------------------------------------------------------------------
(* The fallback build and the file.                                        *)

\* the position of the first call named c among the file operations of the
\* call just returned, 0 when there is none
CallAt(c) ==
    IF c \in CallSet
    THEN CHOOSE i \in 1..Len(last.res.calls) :
             /\ last.res.calls[i] = c
             /\ \A j \in 1..(i - 1) : last.res.calls[j] # c
    ELSE 0

(* C34: in the fallback build Write, WriteString, WriteAt and ReadFrom     *)
(* change the buffer only and leave the bytes of the file as they are, as  *)
(* does every call other than Sync and Close; the file changes only in a   *)
(* Sync or in the first Close of a writable handle, through a file write;  *)
(* Close makes that write before it closes the file, which is the last     *)
(* thing it does; and when a Sync or a first Close returns nil the file    *)
(* holds the whole buffer as it was at that call.                          *)
C34_FallbackWriteback ==
    (goos = "other" /\ InCall) =>
        /\ last.op \notin {"Sync", "Close"} => sys = last.presys
        /\ sys.file # last.presys.file =>
              /\ last.op \in {"Sync", "Close"}
              /\ last.pre.writable
              /\ ~last.pre.closed
              /\ "write" \in CallSet
        /\ (last.op = "Close" /\ ~last.pre.closed) =>
              /\ CallAt("close") = Len(last.res.calls)
              /\ CallAt("write") < CallAt("close")
              /\ ~sys.fhOpen
              /\ (last.pre.writable /\ Len(last.pre.data) > 0
                    /\ last.arg.fail # "seek") => CallAt("write") > 0
        /\ (last.op \in {"Sync", "Close"} /\ ~last.pre.closed
              /\ last.res.err = "nil") => sys.file = last.pre.data

\* a WriteAt in the fallback build that has changed the buffer: the file
\* holds the bytes it held, which are no longer those of the buffer
C34_Witness ==
    /\ goos = "other"
    /\ InCall
    /\ last.op = "WriteAt"
    /\ last.res.n > 0
    /\ f.data # last.pre.data
    /\ sys.file = last.presys.file
    /\ sys.file # f.data

-----------------------------------------------------------------------------
(* Termination.                                                            *)

(* C35: every call returns after finitely many steps and releases f.mu,    *)
(* ReadFrom included whatever its source does: the two calls made at the   *)
(* same time both return and leave the lock free.  With a source whose     *)
(* Read returns 0, nil the loop of ReadFrom never ends, and the call       *)
(* keeps f.mu.                                                             *)
C35_AllReturn == <>(AllDone /\ mu = Unlocked)

(* C36: ReadFrom and WriteTo return when the source or the sink is the     *)
(* handle itself or calls a method of it: the lock the call holds never    *)
(* keeps the source's or the sink's call waiting for ever.  In the code    *)
(* f.ReadFrom(f) waits in f.Read for the lock ReadFrom holds, and          *)
(* f.WriteTo(f) waits in f.Write for the read lock WriteTo holds.          *)
C36_SelfReturns == <>(procs["g1"].pc = "done")

-----------------------------------------------------------------------------
(* Stat against Close.                                                     *)

(* C37: in the fallback build, however a Stat and a Close of one handle    *)
(* interleave, Stat fails with Closed or gets its metadata through a file  *)
(* that is still open: it never calls Stat on the retained file after      *)
(* Close has closed it, and never reads f.platform while Close is inside   *)
(* its body.  The code reads f.platform and calls fh.file.Stat() after     *)
(* f.mu.RUnlock(), so a Close can run in between.                          *)
C37_StatSafe ==
    goos = "other" =>
        /\ ~procs["g2"].torn
        /\ procs["g2"].pc = "done" => procs["g2"].err \in {"Closed", "nil"}
        /\ ~(procs["g2"].pc = "load" /\ InMethod("g1"))

-----------------------------------------------------------------------------
(* Calls that fail.                                                        *)

\* the call just returned has failed before it moved a byte or the cursor
FailedClean ==
    /\ InCall
    /\ last.op \in ErrMethods
    /\ \/ last.res.err \in {"Closed", "ReadOnly", "NegativeOffset", "InvalidWhence"}
       \/ last.res.err = "WriteOutOfBounds" /\ last.res.n = 0

(* C38: a call that fails with Closed, ReadOnly, NegativeOffset or         *)
(* InvalidWhence, or with WriteOutOfBounds and a count of zero, leaves the *)
(* handle as it was: the cursor, the bytes and the length of the region,   *)
(* the writable flag and the closed flag are those before the call, and    *)
(* its count is zero; a Seek that fails returns the position 0 and does    *)
(* not move the cursor.                                                    *)
C38_FailureKeepsState ==
    FailedClean =>
        /\ f.offset = last.pre.offset
        /\ f.data = last.pre.data
        /\ Len(f.data) = Len(last.pre.data)
        /\ f.writable = last.pre.writable
        /\ f.closed = last.pre.closed
        /\ f = last.pre
        /\ last.op # "Sync" => last.res.n = 0

\* a Seek from the end on an open handle with the cursor moved, to a
\* position before the start: NegativeOffset, position 0, cursor kept
C38_Witness ==
    /\ InCall
    /\ last.op = "Seek"
    /\ last.arg.whence = SeekEnd
    /\ ~last.pre.closed
    /\ last.pre.offset > 0
    /\ last.res.err = "NegativeOffset"
    /\ last.res.n = 0
    /\ f.offset = last.pre.offset

\* the errors of the checks a method makes on the handle and its arguments
\* before it looks at the bounds
CheckErrors == {"Closed", "ReadOnly", "NegativeOffset", "InvalidWhence"}

\* the first check the call in progress fails, in the order Closed, ReadOnly,
\* InvalidWhence or NegativeOffset of the argument; "none" when it passes them
FirstFailed ==
    IF last.pre.closed THEN "Closed"
    ELSE IF last.op \in WriteMethods /\ ~last.pre.writable THEN "ReadOnly"
    ELSE IF last.op \in {"ReadAt", "WriteAt"} /\ last.arg.off < 0 THEN "NegativeOffset"
    ELSE IF last.op = "Seek" /\ last.arg.whence \notin {SeekStart, SeekCurrent, SeekEnd}
    THEN "InvalidWhence"
    ELSE IF last.op = "Seek"
            /\ Wrap(SeekBase(last.pre, last.arg.whence) + last.arg.offset) < 0
    THEN "NegativeOffset"
    ELSE "none"

(* C39: every method makes its checks in one order: the closed flag first, *)
(* then the writable flag (Write, WriteString, WriteAt, ReadFrom), then    *)
(* the offset or the whence, then the bounds; a call that fails several of *)
(* them returns the error of the first, and a call that passes the first   *)
(* three returns none of their errors.  So Write and WriteAt on a closed   *)
(* read-only handle return Closed, WriteAt at a negative offset on a       *)
(* read-only handle returns ReadOnly, Seek with an invalid whence on a     *)
(* closed handle returns Closed, and Sync on a closed read-only handle     *)
(* returns Closed.                                                         *)
C39_CheckOrder ==
    (InCall /\ last.op \in ErrMethods) =>
        IF FirstFailed = "none" THEN last.res.err \notin CheckErrors
        ELSE last.res.err = FirstFailed

\* WriteAt at a negative offset on an open read-only handle: ReadOnly
C39_Witness ==
    /\ InCall
    /\ last.op = "WriteAt"
    /\ ~last.pre.closed
    /\ ~last.pre.writable
    /\ last.arg.off < 0
    /\ last.res.err = "ReadOnly"

-----------------------------------------------------------------------------
(* The cursor and the width of int64.                                      *)

\* the methods that advance the cursor by the bytes they move
AdvanceMethods == {"Read", "Write", "WriteString", "ReadFrom"}

(* C40: Seek never stores a sum that has wrapped: when the base of the     *)
(* whence plus the offset is above the largest int64, which takes          *)
(* SeekCurrent or SeekEnd and a positive offset, the sum as the code       *)
(* computes it is negative, Seek returns NegativeOffset and the position   *)
(* 0, and the cursor is as it was, wherever the cursor was; and Read,      *)
(* Write, WriteString and ReadFrom move the cursor only from below Len(),  *)
(* by their count and to Len() at most, so that their sum does not wrap.   *)
C40_NoWrappedCursor ==
    /\ f.offset >= 0
    /\ (InCall /\ last.op = "Seek" /\ ~last.pre.closed
          /\ last.arg.whence \in {SeekStart, SeekCurrent, SeekEnd}) =>
          \A c \in 0..MaxInt :
              LET h == [last.pre EXCEPT !.offset = c]
                  sum == SeekBase(h, last.arg.whence) + last.arg.offset
                  r == Seek(h, last.arg.offset, last.arg.whence)
              IN  /\ r.f.offset >= 0
                  /\ sum > MaxInt =>
                        /\ last.arg.whence \in {SeekCurrent, SeekEnd}
                        /\ last.arg.offset > 0
                        /\ Wrap(sum) < 0
                        /\ r.err = "NegativeOffset"
                        /\ r.n = 0
                        /\ r.f = h
                  /\ (sum >= 0 /\ sum <= MaxInt) => r.err = "nil" /\ r.f.offset = sum
    /\ (InCall /\ last.op \in AdvanceMethods /\ f.offset # last.pre.offset) =>
          /\ last.pre.offset < Len(last.pre.data)
          /\ f.offset = last.pre.offset + last.res.n
          /\ f.offset <= Len(f.data)
          /\ f.offset <= MaxInt

\* a Seek from the current position, which is not 0, by the largest int64:
\* the sum wraps, the call fails and the cursor stays
C40_Witness ==
    /\ InCall
    /\ last.op = "Seek"
    /\ ~last.pre.closed
    /\ last.arg.whence = SeekCurrent
    /\ last.arg.offset = MaxInt
    /\ last.pre.offset > 0
    /\ last.res.err = "NegativeOffset"
    /\ last.res.n = 0
    /\ f.offset = last.pre.offset

====
